---------------------------- MODULE Spec2Model ----------------------------
(***************************************************************************)
(* Organizm: a tick-based ecosystem simulation (herbivores, carnivores,    *)
(* resources, terrain).  The model follows src/unnamed/part_007 (Animal    *)
(* and the final Carnivore revision), src/src/core/Herbivore.ts,           *)
(* src/unnamed/part_008 (Resource), src/unnamed/part_009 (Environment) and *)
(* src/src/simulation/Simulation.ts.                                       *)
(*                                                                         *)
(* Numbers.  Every real quantity of the program (time, energy, health,     *)
(* coordinates, traits, amounts, Math.random() results) is held as an      *)
(* integer number of thousandths: 100 energy is 100000, a draw of 0.5 is   *)
(* 500.  Counters (generation, children, litter size, indices) are plain   *)
(* integers.  Products of two quantities are taken with Mul, which divides *)
(* by 1000 and rounds towards minus infinity.                              *)
(*                                                                         *)
(* Randomness.  Math.random() is an input: a call of a handler reads the   *)
(* successive values of one of the sequences of RandomTable, chosen by the *)
(* action (seed) and indexed by the number k of draws made so far in that  *)
(* call.  Every operator that draws returns the advanced index.            *)
(***************************************************************************)
EXTENDS Integers, Sequences, FiniteSets, TLC

VARIABLES
    animals,         \* Simulation.animals: sequence of animal records
    environment,     \* Simulation.environment: record (weather, timer, resources)
    simulationTime,  \* Simulation.simulationTime
    isRunning,       \* Simulation.isRunning
    timeScale,       \* Simulation.timeScale
    nextId,          \* number of objects created so far (stands for generateUniqueId)
    steps,           \* number of calls made so far (bounds the exploration)
    last             \* the last call made and what it did (history, read by the properties)

vars == <<animals, environment, simulationTime, isRunning, timeScale, nextId, steps, last>>

-----------------------------------------------------------------------------
(* Arithmetic helpers *)

Max(a, b) == IF a >= b THEN a ELSE b

Min(a, b) == IF a <= b THEN a ELSE b

\* a * b of two quantities in thousandths, in thousandths (floor); the split
\* keeps the intermediate products small.
Mul(a, b) == (a \div 1000) * b + ((a % 1000) * b) \div 1000

\* Math.floor of a quantity in thousandths, as a plain integer
Floor(a) == a \div 1000

Abs(a) == IF a < 0 THEN -a ELSE a

-----------------------------------------------------------------------------
(* The pseudo-random source *)

\* The sequences Math.random() may return within one call (thousandths).
\* The first three are constant sources, as the tests install with
\* mockReturnValue; the others vary.
RandomTable ==
    << <<500>>,
       <<0>>,
       <<999>>,
       <<100, 900, 400, 700, 200>> >>

Seeds == 1..Len(RandomTable)

\* The k-th value (k = 0, 1, ...) of Math.random() under the given seed
Random(seed, k) == RandomTable[seed][(k % Len(RandomTable[seed])) + 1]

-----------------------------------------------------------------------------
(* Enumerations of core/types.ts *)

Directions == <<"NORTH", "NORTHEAST", "EAST", "SOUTHEAST",
                "SOUTH", "SOUTHWEST", "WEST", "NORTHWEST">>

AllDirections == {Directions[i] : i \in 1..Len(Directions)} \cup {"NONE"}

AnimalStates == {"IDLE", "SLEEPING", "MOVING", "EATING", "MATING", "DEAD"}

WeatherValues == <<"SUNNY", "RAINY", "STORMY", "DROUGHT", "COLD", "HOT">>

-----------------------------------------------------------------------------
(* Resource (src/unnamed/part_008) *)

\* new Resource(position, type, amount, regenerationRate)
NewResource(id, position, type, amount, regenerationRate) ==
    [id |-> id, position |-> position, type |-> type, amount |-> amount,
     regenerationRate |-> regenerationRate, isDepleted |-> FALSE]

\* An update that never regenerates (not the code: used to show that the
\* regeneration property depends on the amount added)
ResourceUpdateWithoutRegeneration(r, deltaTime) == r

\* An update that regenerates a depleted resource as well (not the code: used
\* to show that the depletion property depends on the early return)
ResourceUpdateOfDepleted(r, deltaTime) ==
    IF r.regenerationRate > 0
    THEN [r EXCEPT !.amount = @ + Mul(r.regenerationRate, deltaTime)]
    ELSE r

\* Resource.update(deltaTime)
ResourceUpdate(r, deltaTime) ==
    IF r.isDepleted THEN r
    ELSE IF r.regenerationRate > 0
         THEN [r EXCEPT !.amount = @ + Mul(r.regenerationRate, deltaTime)]
         ELSE r

\* A consume that hands out whatever is asked (not the code: used to show that
\* the consume property depends on the minimum taken)
ResourceConsumedAsAsked(r, consumeAmount) ==
    IF r.isDepleted THEN 0 ELSE consumeAmount

\* Resource.consume(consumeAmount): the resource afterwards
ResourceConsume(r, consumeAmount) ==
    IF r.isDepleted THEN r
    ELSE LET actualConsumption == Min(r.amount, consumeAmount)
             left == r.amount - actualConsumption
         IN  [r EXCEPT !.amount = left, !.isDepleted = (left <= 0)]

\* Resource.consume(consumeAmount): the value returned
ResourceConsumed(r, consumeAmount) ==
    IF r.isDepleted THEN 0 ELSE Min(r.amount, consumeAmount)

\* Resource.nutritionalValue
nutritionalValue(r) ==
    CASE r.type = "PLANT" -> 5000
      [] r.type = "SMALL_ANIMAL" -> 15000
      [] r.type = "LARGE_ANIMAL" -> 30000
      [] r.type = "WATER" -> 2000
      [] OTHER -> 1000

\* Resource.energyValue
energyValue(r) == nutritionalValue(r) * 2

-----------------------------------------------------------------------------
(* Environment (src/unnamed/part_009) *)

\* The EnvironmentConfig the simulation is built with
EnvironmentConfig ==
    [width |-> 8000, height |-> 8000, initialWeather |-> "SUNNY",
     weatherChangeInterval |-> 50000]

\* Environment.initializeTerrainMap for a grid of 8 x 8 cells: row y, column x,
\* the values simpleNoise gives (computed from the source's formula).
initializeTerrainMap ==
    << <<"LAND",     "FOREST",   "MOUNTAIN", "MOUNTAIN", "FOREST",   "LAND",     "LAND",     "DESERT">>,
       <<"FOREST",   "MOUNTAIN", "MOUNTAIN", "FOREST",   "LAND",     "LAND",     "WATER",    "DESERT">>,
       <<"MOUNTAIN", "MOUNTAIN", "MOUNTAIN", "LAND",     "LAND",     "DESERT",   "DESERT",   "LAND">>,
       <<"MOUNTAIN", "FOREST",   "LAND",     "LAND",     "WATER",    "DESERT",   "LAND",     "FOREST">>,
       <<"FOREST",   "LAND",     "LAND",     "WATER",    "DESERT",   "LAND",     "FOREST",   "MOUNTAIN">>,
       <<"LAND",     "LAND",     "DESERT",   "DESERT",   "LAND",     "FOREST",   "MOUNTAIN", "MOUNTAIN">>,
       <<"LAND",     "WATER",    "DESERT",   "LAND",     "FOREST",   "MOUNTAIN", "MOUNTAIN", "MOUNTAIN">>,
       <<"DESERT",   "DESERT",   "LAND",     "FOREST",   "MOUNTAIN", "MOUNTAIN", "MOUNTAIN", "MOUNTAIN">> >>

\* new Environment(config)
NewEnvironment(config) ==
    [width |-> config.width, height |-> config.height,
     weather |-> config.initialWeather,
     weatherTimer |-> 0,
     weatherChangeInterval |-> config.weatherChangeInterval,
     terrainMap |-> initializeTerrainMap,
     resources |-> << >>]

\* A getTerrainAt that tests the lower bounds only and takes the cell of the
\* last row or column beyond the upper ones (not the code: used to show that
\* the terrain property depends on the upper bound checks)
getTerrainAtClamped(env, position) ==
    LET x == Min(Floor(position.x), Floor(env.width) - 1)
        y == Min(Floor(position.y), Floor(env.height) - 1)
    IN  IF x < 0 \/ y < 0
        THEN "WATER"
        ELSE env.terrainMap[y + 1][x + 1]

\* Environment.getTerrainAt(position)
getTerrainAt(env, position) ==
    LET x == Floor(position.x)
        y == Floor(position.y)
    IN  IF x < 0 \/ x >= Floor(env.width) \/ y < 0 \/ y >= Floor(env.height)
        THEN "WATER"
        ELSE env.terrainMap[y + 1][x + 1]

\* Environment.isInBounds(position)
isInBounds(env, position) ==
    /\ position.x >= 0 /\ position.x < env.width
    /\ position.y >= 0 /\ position.y < env.height

\* A boundPosition that bounds each axis from below only (not the code: used to
\* show that the in-bounds property depends on the upper clamp)
boundPositionFromBelow(env, position) ==
    [x |-> Max(0, position.x), y |-> Max(0, position.y)]

\* Environment.boundPosition(position): each axis into [0, dimension - 0.001]
boundPosition(env, position) ==
    [x |-> Max(0, Min(env.width - 1, position.x)),
     y |-> Max(0, Min(env.height - 1, position.y))]

\* The position drawn by one attempt of getRandomPosition
RandomPositionAt(env, seed, k) ==
    [x |-> Mul(Random(seed, k), env.width),
     y |-> Mul(Random(seed, k + 1), env.height)]

\* maxAttempts of Environment.getRandomPosition
maxAttempts == 100

\* Environment.getRandomPosition(terrainFilter): the first of at most
\* maxAttempts draws whose terrain matches, else one more, unfiltered draw.
\* Returns the position and the advanced draw index.  Attempt i reads the
\* draws k + 2i and k + 2i + 1, so the attempts repeat with the period of the
\* stream and a first match, if there is one, is among the first `period`.
getRandomPosition(env, terrainFilter, seed, k) ==
    LET period == Min(maxAttempts, Len(RandomTable[seed]))
        matching == {i \in 0..(period - 1) :
                        getTerrainAt(env, RandomPositionAt(env, seed, k + 2 * i))
                            = terrainFilter}
        first == CHOOSE i \in matching : \A m \in matching : i <= m
    IN  IF matching = {}
        THEN [position |-> RandomPositionAt(env, seed, k + 2 * maxAttempts),
              k |-> k + 2 * maxAttempts + 2]
        ELSE [position |-> RandomPositionAt(env, seed, k + 2 * first),
              k |-> k + 2 * first + 2]

\* (dx, dy) lies within the radius: dx*dx + dy*dy <= radius*radius
WithinRadius(a, b, radius) ==
    LET dx == a.x - b.x
        dy == a.y - b.y
    IN  dx * dx + dy * dy <= radius * radius

\* A filter that drops every depleted resource (not the code: used to show that
\* the removal property depends on the regeneration rate)
ResourceKeptUndepleted(r) == ~r.isDepleted

\* The filter of Environment.getResources and Environment.updateResources
ResourceKept(r) == ~r.isDepleted \/ r.regenerationRate > 0

\* Environment.getResources(): indices (into env.resources) of the resources returned
getResources(env) ==
    {i \in 1..Len(env.resources) : ResourceKept(env.resources[i])}

\* Environment.getResourcesNear(position, radius): indices of the resources returned
getResourcesNear(env, position, radius) ==
    {i \in getResources(env) :
        WithinRadius(env.resources[i].position, position, radius)}

\* Environment.addResource(resource)
addResource(env, resource) ==
    [env EXCEPT !.resources = Append(@, resource)]

\* Environment.changeWeather(): draws one value
changeWeather(env, seed, k) ==
    LET newWeather ==
            WeatherValues[Floor(Random(seed, k) * Len(WeatherValues)) + 1]
    IN  [env EXCEPT !.weather = newWeather]

\* An updateWeather that carries the time beyond the interval over (not the
\* code: used to show that the weather property depends on the reset to 0)
updateWeatherKeepingRemainder(env, deltaTime, seed, k) ==
    LET timer == env.weatherTimer + deltaTime
    IN  IF timer >= env.weatherChangeInterval
        THEN [env |-> changeWeather(
                          [env EXCEPT !.weatherTimer = timer - env.weatherChangeInterval],
                          seed, k),
              k |-> k + 1]
        ELSE [env |-> [env EXCEPT !.weatherTimer = timer], k |-> k]

\* Environment.updateWeather(deltaTime): the environment and the draw index
updateWeather(env, deltaTime, seed, k) ==
    LET timer == env.weatherTimer + deltaTime
    IN  IF timer >= env.weatherChangeInterval
        THEN [env |-> changeWeather([env EXCEPT !.weatherTimer = 0], seed, k),
              k |-> k + 1]
        ELSE [env |-> [env EXCEPT !.weatherTimer = timer], k |-> k]

\* Environment.updateResources(deltaTime)
updateResources(env, deltaTime) ==
    LET updated == [i \in 1..Len(env.resources) |->
                        ResourceUpdate(env.resources[i], deltaTime)]
    IN  [env EXCEPT !.resources = SelectSeq(updated, ResourceKept)]

\* Environment.update(deltaTime)
EnvironmentUpdate(env, deltaTime, seed, k) ==
    LET w == updateWeather(env, deltaTime, seed, k)
    IN  [env |-> updateResources(w.env, deltaTime), k |-> w.k]

-----------------------------------------------------------------------------
(* Animal (src/unnamed/part_007, lines 1-303) *)

\* Animal's constructor: position, traits, environment, generation.  The
\* environment is the one shared Environment and is not stored per animal.
\* lastHuntTime is the Carnivore's field (0 and unused in a herbivore).
NewAnimal(id, kind, position, traits, generation) ==
    [id |-> id, kind |-> kind, position |-> position, direction |-> "NONE",
     state |-> "IDLE", age |-> 0, energy |-> 100000, health |-> 100000,
     traits |-> traits,
     stats |-> [generation |-> generation, children |-> 0, foodEaten |-> 0,
                distanceTraveled |-> 0, timeAlive |-> 0],
     isDead |-> FALSE, lastHuntTime |-> 0]

\* The default of Animal's constructor parameter `generation`
DefaultGeneration == 1

\* Herbivore's constructor calls super(position, traits, generation): Animal's
\* third parameter is `environment`, so the generation passed lands there and
\* Animal's own `generation` parameter takes its default.  (Herbivore then
\* stores the environment itself.)
NewHerbivore(id, position, traits, generation) ==
    NewAnimal(id, "Herbivore", position, traits, DefaultGeneration)

\* Carnivore's constructor calls super(position, traits, environment, generation)
NewCarnivore(id, position, traits, generation) ==
    NewAnimal(id, "Carnivore", position, traits, generation)

\* Animal.consumeEnergy(amount)
consumeEnergy(a, amount) == [a EXCEPT !.energy = Max(0, @ - amount)]

\* Variant: gainEnergy without the cap at 100
gainEnergyUncapped(a, amount) == [a EXCEPT !.energy = @ + amount]

\* Animal.gainEnergy(amount)
gainEnergy(a, amount) == [a EXCEPT !.energy = Min(100000, @ + amount)]

\* Animal.die()
die(a) ==
    IF a.isDead THEN a
    ELSE [a EXCEPT !.isDead = TRUE, !.state = "DEAD"]

\* Animal.sleep(duration)
sleep(a) == [a EXCEPT !.state = "SLEEPING"]

\* Animal.move(direction)
move(a, direction) == [a EXCEPT !.direction = direction, !.state = "MOVING"]

\* Animal.eat(resourceType)
AnimalEat(a) == [a EXCEPT !.state = "EATING"]

\* Carnivore.eat(resourceType), which overrides Animal.eat
CarnivoreEat(a, resourceType) ==
    IF resourceType = "SMALL_ANIMAL"
    THEN [gainEnergy(a, 30000) EXCEPT !.stats.foodEaten = @ + 1000]
    ELSE a

\* eat(resourceType) as dispatched on the receiver's class
eat(a, resourceType) ==
    IF a.kind = "Carnivore" THEN CarnivoreEat(a, resourceType) ELSE AnimalEat(a)

\* Herbivore.canMateWith(partner)
HerbivoreCanMateWith(a, partner) ==
    LET maturityAge == Mul(a.traits.lifespan, 100)
        maxReproductiveAge == Mul(a.traits.lifespan, 800)
    IN  /\ partner.kind = "Herbivore"
        /\ ~(a.energy < 50000 \/ partner.energy < 50000)
        /\ ~(a.age < maturityAge \/ partner.age < maturityAge)
        /\ ~(a.age > maxReproductiveAge \/ partner.age > maxReproductiveAge)

\* Carnivore.canMateWith(partner)
CarnivoreCanMateWith(a, partner) ==
    LET maturityAge == Mul(a.traits.lifespan, 150)
        maxReproductiveAge == Mul(a.traits.lifespan, 750)
    IN  /\ partner.kind = "Carnivore"
        /\ ~(a.energy < 60000 \/ partner.energy < 60000)
        /\ ~(a.age < maturityAge \/ partner.age < maturityAge)
        /\ ~(a.age > maxReproductiveAge \/ partner.age > maxReproductiveAge)

\* canMateWith(partner) as dispatched on the receiver's class
canMateWith(a, partner) ==
    IF a.kind = "Carnivore" THEN CarnivoreCanMateWith(a, partner)
    ELSE HerbivoreCanMateWith(a, partner)

\* Animal.mate(partner), inherited by Herbivore
AnimalMate(a, partner) ==
    IF ~canMateWith(a, partner) THEN a
    ELSE [a EXCEPT !.state = "MATING"]

\* Carnivore.mate(partner), which overrides Animal.mate
CarnivoreMate(a, partner) ==
    IF partner.kind # "Carnivore" THEN a
    ELSE IF a.energy > 70000 /\ partner.energy > 70000
         THEN consumeEnergy([a EXCEPT !.state = "MATING"], 20000)
         ELSE a

\* mate(partner) as dispatched on the receiver's class
mate(a, partner) ==
    IF a.kind = "Carnivore" THEN CarnivoreMate(a, partner)
    ELSE AnimalMate(a, partner)

\* The squared distance behind Animal.distanceTo(target): distances are only
\* compared, so the square root is not taken.
distanceSqTo(a, target) ==
    LET dx == target.x - a.position.x
        dy == target.y - a.position.y
    IN  dx * dx + dy * dy

\* distanceTo(target) < d
distanceLess(a, target, d) == distanceSqTo(a, target) < d * d

\* |v| < tan(22.5 deg) * |u|, i.e. (|u| + |v|)^2 < 2 u^2  (tan 22.5 = sqrt 2 - 1)
WithinHalfOctant(u, v) ==
    (Abs(u) + Abs(v)) * (Abs(u) + Abs(v)) < 2 * u * u

\* Animal.directionTo(target): the octant of atan2(dy, dx), East centred on 0
directionTo(a, target) ==
    LET dx == target.x - a.position.x
        dy == target.y - a.position.y
    IN  CASE dx = 0 /\ dy = 0 -> "EAST"
          [] WithinHalfOctant(dx, dy) /\ dx > 0 -> "EAST"
          [] WithinHalfOctant(dx, dy) /\ dx < 0 -> "WEST"
          [] WithinHalfOctant(dy, dx) /\ dy > 0 -> "SOUTH"
          [] WithinHalfOctant(dy, dx) /\ dy < 0 -> "NORTH"
          [] OTHER -> IF dy > 0
                      THEN (IF dx > 0 THEN "SOUTHEAST" ELSE "SOUTHWEST")
                      ELSE (IF dx > 0 THEN "NORTHEAST" ELSE "NORTHWEST")

\* 0.7071 * distance (rounded towards zero)
Diagonal(distance) ==
    (distance \div 10000) * 7071 + ((distance % 10000) * 7071) \div 10000

\* The directionVectors table of Animal.updatePosition, scaled by distance
directionVector(direction, distance) ==
    CASE direction = "NORTH"     -> [x |-> 0, y |-> -distance]
      [] direction = "NORTHEAST" -> [x |-> Diagonal(distance), y |-> -Diagonal(distance)]
      [] direction = "EAST"      -> [x |-> distance, y |-> 0]
      [] direction = "SOUTHEAST" -> [x |-> Diagonal(distance), y |-> Diagonal(distance)]
      [] direction = "SOUTH"     -> [x |-> 0, y |-> distance]
      [] direction = "SOUTHWEST" -> [x |-> -Diagonal(distance), y |-> Diagonal(distance)]
      [] direction = "WEST"      -> [x |-> -distance, y |-> 0]
      [] direction = "NORTHWEST" -> [x |-> -Diagonal(distance), y |-> -Diagonal(distance)]
      [] OTHER                   -> [x |-> 0, y |-> 0]

\* Animal.updatePosition(distance)
updatePosition(a, env, distance) ==
    LET vector == directionVector(a.direction, distance)
        newPosition == [x |-> a.position.x + vector.x,
                        y |-> a.position.y + vector.y]
    IN  [a EXCEPT !.position = boundPosition(env, newPosition)]

\* Sleeping that recovers metabolism * deltaTime only (not the code: used to show
\* that the accounting property depends on the recovery rate)
performSleepingAtBaseRate(a, deltaTime) ==
    gainEnergy(a, Mul(a.traits.metabolism, deltaTime))

\* Animal.performSleeping(deltaTime)
performSleeping(a, deltaTime) ==
    gainEnergy(a, Mul(Mul(1500, a.traits.metabolism), deltaTime))

\* Animal.performMoving(deltaTime)
performMoving(a, env, deltaTime) ==
    LET distance == Mul(a.traits.speed, deltaTime)
        moved == updatePosition(
                    [a EXCEPT !.stats.distanceTraveled = @ + distance],
                    env, distance)
    IN  consumeEnergy(moved, Mul(Mul(200, a.traits.speed), deltaTime))

\* An eating that is over after one update (not the code: used to show that the
\* no-return-to-IDLE property depends on the empty performEating)
performEatingUntilDone(a, deltaTime) == [a EXCEPT !.state = "IDLE"]

\* Animal.performEating(deltaTime): empty in the source
performEating(a, deltaTime) == a

\* Animal.performMating(deltaTime)
performMating(a, deltaTime) == consumeEnergy(a, 10 * deltaTime)

\* Animal.performIdle(deltaTime)
performIdle(a, deltaTime) ==
    consumeEnergy(a, Mul(Mul(100, a.traits.metabolism), deltaTime))

\* Animal.performStateAction(deltaTime)
performStateAction(a, env, deltaTime) ==
    CASE a.state = "SLEEPING" -> performSleeping(a, deltaTime)
      [] a.state = "MOVING"   -> performMoving(a, env, deltaTime)
      [] a.state = "EATING"   -> performEating(a, deltaTime)
      [] a.state = "MATING"   -> performMating(a, deltaTime)
      [] OTHER                -> performIdle(a, deltaTime)

\* A death condition that tests the energy only (not the code: used to show that
\* the bounded-lifetime property depends on the age test)
ShouldDieOfHungerOnly(a) == a.energy <= 0

\* The death condition checked by Animal.update after ageing and metabolism
ShouldDie(a) == a.age >= a.traits.lifespan \/ a.energy <= 0

\* An update whose baseline metabolism costs nothing (not the code: used to show
\* that the bounded-death property depends on the energy consumed per update)
AgeWithoutMetabolism(a, deltaTime) ==
    [a EXCEPT !.age = @ + deltaTime, !.stats.timeAlive = @ + deltaTime]

\* Animal.update(deltaTime): the part before the death check (age, timeAlive,
\* baseline metabolism)
AgeAndMetabolise(a, deltaTime) ==
    consumeEnergy([a EXCEPT !.age = @ + deltaTime,
                            !.stats.timeAlive = @ + deltaTime],
                  Mul(a.traits.metabolism, deltaTime))

\* Variant: update that performs the state action before the death check
AnimalUpdateActFirst(a, env, deltaTime) ==
    IF a.isDead THEN a
    ELSE LET acted == performStateAction(AgeAndMetabolise(a, deltaTime), env, deltaTime)
         IN  IF ShouldDie(acted) THEN die(acted) ELSE acted

\* Variant: update without the early return for a dead animal
AnimalUpdateOfDead(a, env, deltaTime) ==
    LET aged == AgeAndMetabolise(a, deltaTime)
    IN  IF ShouldDie(aged) THEN die(aged)
        ELSE performStateAction(aged, env, deltaTime)

\* Animal.update(deltaTime)
AnimalUpdate(a, env, deltaTime) ==
    IF a.isDead THEN a
    ELSE LET aged == AgeAndMetabolise(a, deltaTime)
         IN  IF ShouldDie(aged) THEN die(aged)
             ELSE performStateAction(aged, env, deltaTime)

-----------------------------------------------------------------------------
(* Trait mixing and offspring *)

\* mixTraits(traitA, traitB, mutationFactor) of src/src/utils/helpers.ts, with
\* its two draws: mixRatio, then the mutation draw.  Each product is rounded
\* where the code rounds it: the two terms of the weighted average are rounded
\* before they are added.
mixTraits(traitA, traitB, mutationFactor, mixRatio, r) ==
    LET baseMix == Mul(traitA, mixRatio) + Mul(traitB, 1000 - mixRatio)
        mutationRange == Mul(Max(traitA, traitB), mutationFactor)
        mutation == Mul(2 * r - 1000, mutationRange)
    IN  Max(0, baseMix + mutation)

\* The default of mixTraits' parameter mutationFactor (0.1)
DefaultMutationFactor == 100

\* A mixParentTrait that returns the mutated value as it is (not the code: used
\* to show that the range property depends on the final Math.max)
mixParentTraitWithoutFloor(parentA, parentB, r1, r2) ==
    LET min == Min(parentA, parentB)
        max == Max(parentA, parentB)
        range == max - min
        baseValue == min + Mul(range, r1)
        mutationFactor == 800 + Mul(r2, 400)
    IN  Mul(baseValue, mutationFactor)

\* Carnivore.mixParentTrait(traitName, partner) on the two parents' values
mixParentTrait(parentA, parentB, r1, r2) ==
    LET min == Min(parentA, parentB)
        max == Max(parentA, parentB)
        range == max - min
        baseValue == min + Mul(range, r1)
        mutationFactor == 800 + Mul(r2, 400)
        finalValue == Mul(baseValue, mutationFactor)
    IN  Max(min, finalValue)

TraitNames == <<"speed", "strength", "perception", "metabolism",
                "reproductiveUrge", "lifespan">>

\* The childTraits literal of Herbivore.createOffspring: two draws per trait,
\* in the order of the literal
HerbivoreChildTraits(a, partner, seed, k) ==
    LET mixed(n) == mixTraits(a.traits[TraitNames[n]], partner.traits[TraitNames[n]],
                              DefaultMutationFactor,
                              Random(seed, k + 2 * (n - 1)),
                              Random(seed, k + 2 * (n - 1) + 1))
    IN  [speed |-> mixed(1), strength |-> mixed(2), perception |-> mixed(3),
         metabolism |-> mixed(4), reproductiveUrge |-> mixed(5),
         lifespan |-> mixed(6)]

\* The childTraits literal of Carnivore.createOffspring
CarnivoreChildTraits(a, partner, seed, k) ==
    LET mixed(n) == mixParentTrait(a.traits[TraitNames[n]], partner.traits[TraitNames[n]],
                                   Random(seed, k + 2 * (n - 1)),
                                   Random(seed, k + 2 * (n - 1) + 1))
    IN  [speed |-> mixed(1), strength |-> mixed(2), perception |-> mixed(3),
         metabolism |-> mixed(4), reproductiveUrge |-> mixed(5),
         lifespan |-> mixed(6)]

\* The child position of createOffspring: within +-1 of the parent, bounded
ChildPosition(a, env, seed, k) ==
    boundPosition(env, [x |-> a.position.x + (Random(seed, k) * 2 - 1000),
                        y |-> a.position.y + (Random(seed, k + 1) * 2 - 1000)])

\* litterSize of Herbivore.createOffspring
HerbivoreLitterSize(a, partner) ==
    LET littersizeFactor == a.traits.reproductiveUrge + partner.traits.reproductiveUrge
    IN  Max(1, littersizeFactor \div 30000)

\* litterSize of Carnivore.createOffspring
CarnivoreLitterSize(a, partner) ==
    LET littersizeFactor == (a.traits.reproductiveUrge + partner.traits.reproductiveUrge) \div 2
    IN  Max(1, littersizeFactor \div 40000)

\* generateUniqueId(): the two draws every constructor of an Animal or a
\* Resource makes for the id of the new object
DrawsPerId == 2

\* Draws made for one child: twelve for the traits, two for the position, and
\* two by generateUniqueId in the constructor of the child
DrawsPerChild == 16

\* Herbivore.createOffspring(partner): the children, in order
HerbivoreCreateOffspring(a, partner, env, seed, k, firstId) ==
    [c \in 1..HerbivoreLitterSize(a, partner) |->
        LET kc == k + DrawsPerChild * (c - 1)
        IN  NewHerbivore(firstId + c - 1,
                         ChildPosition(a, env, seed, kc + 12),
                         HerbivoreChildTraits(a, partner, seed, kc),
                         a.stats.generation + 1)]

\* Carnivore.createOffspring(partner): the children, in order
CarnivoreCreateOffspring(a, partner, env, seed, k, firstId) ==
    [c \in 1..CarnivoreLitterSize(a, partner) |->
        LET kc == k + DrawsPerChild * (c - 1)
        IN  NewCarnivore(firstId + c - 1,
                         ChildPosition(a, env, seed, kc + 12),
                         CarnivoreChildTraits(a, partner, seed, kc),
                         a.stats.generation + 1)]

\* createOffspring(partner) as dispatched on the receiver's class
createOffspring(a, partner, env, seed, k, firstId) ==
    IF a.kind = "Carnivore"
    THEN CarnivoreCreateOffspring(a, partner, env, seed, k, firstId)
    ELSE HerbivoreCreateOffspring(a, partner, env, seed, k, firstId)

\* Animal.reproduce(partner): the receiver afterwards
reproduce(a) == [a EXCEPT !.stats.children = @ + 1]

-----------------------------------------------------------------------------
(* Species behaviour.  A world w is the record the handlers work on:        *)
(* animals, env, the draw source (seed, k), nextId and the log of the      *)
(* interaction pass.                                                        *)

\* moveRandomly() of Herbivore and Carnivore: one draw
moveRandomly(a, seed, k) ==
    move(a, Directions[Floor(Random(seed, k) * Len(Directions)) + 1])

\* The member of S nearest to the animal: the loops of findAndEatPlant and
\* hunt keep the first of the nearest (strict <), in the order of the array
Closest(a, positionOf) ==
    CHOOSE j \in DOMAIN positionOf : \A m \in DOMAIN positionOf :
        \/ distanceSqTo(a, positionOf[j]) < distanceSqTo(a, positionOf[m])
        \/ /\ distanceSqTo(a, positionOf[j]) = distanceSqTo(a, positionOf[m])
           /\ j <= m

\* Herbivore.findAndEatPlant()
findAndEatPlant(w, i) ==
    LET a == w.animals[i]
        plants == {j \in getResourcesNear(w.env, a.position, a.traits.perception) :
                       w.env.resources[j].type = "PLANT"}
        closestPlant == Closest(a, [j \in plants |-> w.env.resources[j].position])
        plant == w.env.resources[closestPlant]
        consumedAmount == ResourceConsumed(plant, 1000)
        fed == [gainEnergy(eat(a, "PLANT"), Mul(consumedAmount, energyValue(plant)))
                    EXCEPT !.stats.foodEaten = @ + consumedAmount]
    IN  IF plants # {}
        THEN IF distanceLess(a, plant.position, 1000)
             THEN [w EXCEPT !.animals[i] = fed,
                            !.env.resources[closestPlant] = ResourceConsume(plant, 1000)]
             ELSE [w EXCEPT !.animals[i] = move(a, directionTo(a, plant.position))]
        ELSE [w EXCEPT !.animals[i] = moveRandomly(a, w.seed, w.k), !.k = @ + 1]

\* A decision policy with the sleeping band ending at 50 (not the code: used to
\* show that the policy property depends on the thresholds)
HerbivoreDecideWithNarrowSleep(w, i) ==
    LET a == w.animals[i]
    IN  IF a.energy < 40000 THEN findAndEatPlant(w, i)
        ELSE IF a.energy < 50000 THEN [w EXCEPT !.animals[i] = sleep(a)]
        ELSE [w EXCEPT !.animals[i] = moveRandomly(a, w.seed, w.k), !.k = @ + 1]

\* Herbivore.decideNextAction()
HerbivoreDecideNextAction(w, i) ==
    LET a == w.animals[i]
    IN  IF a.energy < 40000 THEN findAndEatPlant(w, i)
        ELSE IF a.energy < 70000 THEN [w EXCEPT !.animals[i] = sleep(a)]
        ELSE [w EXCEPT !.animals[i] = moveRandomly(a, w.seed, w.k), !.k = @ + 1]

\* Herbivore.update(deltaTime)
HerbivoreUpdate(w, i, deltaTime) ==
    LET updated == AnimalUpdate(w.animals[i], w.env, deltaTime)
        w1 == [w EXCEPT !.animals[i] = updated]
    IN  IF ~updated.isDead /\ updated.state = "IDLE"
        THEN HerbivoreDecideNextAction(w1, i)
        ELSE w1

\* Carnivore.huntCooldown
huntCooldown == 10000

\* Carnivore.attackPrey(prey) counting the meal for the prey as well
attackPreyCountedOnPrey(w, i, prey) ==
    LET a == [w.animals[i] EXCEPT !.lastHuntTime = 0]
        target == w.animals[prey]
        attackPower == Mul(a.traits.strength, 1000 + Mul(Random(w.seed, w.k), 500))
        preyDefense == Mul(target.traits.speed, 500) + Mul(target.energy, 10)
        energyGained == Min(Mul(target.health, 500), 50000)
        won == [gainEnergy(eat(a, "SMALL_ANIMAL"), energyGained)
                    EXCEPT !.stats.foodEaten = @ + 1000]
    IN  IF attackPower > preyDefense
        THEN [w EXCEPT !.animals[i] = won,
                       !.animals[prey] = [die(target) EXCEPT !.stats.foodEaten = @ + 1000],
                       !.k = @ + 1]
        ELSE [w EXCEPT !.animals[i] = consumeEnergy(a, 10000), !.k = @ + 1]

\* Carnivore.attackPrey(prey): one draw
attackPrey(w, i, prey) ==
    LET a == [w.animals[i] EXCEPT !.lastHuntTime = 0]
        target == w.animals[prey]
        attackPower == Mul(a.traits.strength, 1000 + Mul(Random(w.seed, w.k), 500))
        preyDefense == Mul(target.traits.speed, 500) + Mul(target.energy, 10)
        energyGained == Min(Mul(target.health, 500), 50000)
        won == [gainEnergy(eat(a, "SMALL_ANIMAL"), energyGained)
                    EXCEPT !.stats.foodEaten = @ + 1000]
    IN  IF attackPower > preyDefense
        THEN [w EXCEPT !.animals[i] = won, !.animals[prey] = die(target), !.k = @ + 1,
                       !.calls = Append(@, <<"attackPrey", a.id>>)]
        ELSE [w EXCEPT !.animals[i] = consumeEnergy(a, 10000), !.k = @ + 1,
                       !.calls = Append(@, <<"attackPrey", a.id>>)]

\* Carnivore.hunt(): its first statement calls this.environment.getAnimalsNear,
\* which Environment does not define, so the call throws TypeError and the
\* statements after it (choosing the prey, attackPrey, move, moveRandomly) are
\* not reached: the carnivore is left as it was, and the exception goes to the
\* caller of update (threw)
hunt(w, i) ==
    [w EXCEPT !.calls = Append(@, <<"hunt", w.animals[i].id>>), !.threw = TRUE]

\* Carnivore.decideNextAction()
CarnivoreDecideNextAction(w, i) ==
    LET a == w.animals[i]
    IN  IF a.energy < 50000 /\ a.lastHuntTime >= huntCooldown THEN hunt(w, i)
        ELSE IF a.energy < 70000 THEN [w EXCEPT !.animals[i] = sleep(a)]
        ELSE [w EXCEPT !.animals[i] = moveRandomly(a, w.seed, w.k), !.k = @ + 1]

\* Carnivore.update(deltaTime)
CarnivoreUpdate(w, i, deltaTime) ==
    LET updated == [AnimalUpdate(w.animals[i], w.env, deltaTime)
                        EXCEPT !.lastHuntTime = @ + deltaTime]
        w1 == [w EXCEPT !.animals[i] = updated]
    IN  IF ~updated.isDead /\ updated.state = "IDLE"
        THEN CarnivoreDecideNextAction(w1, i)
        ELSE w1

\* animal.update(deltaTime) as dispatched on the receiver's class
UpdateAnimalAt(w, i, deltaTime) ==
    IF w.animals[i].kind = "Carnivore" THEN CarnivoreUpdate(w, i, deltaTime)
    ELSE HerbivoreUpdate(w, i, deltaTime)

-----------------------------------------------------------------------------
(* Simulation (src/src/simulation/Simulation.ts) *)

DEFAULT_HERBIVORE_TRAITS ==
    [speed |-> 2000, strength |-> 3000, perception |-> 8000, metabolism |-> 500,
     reproductiveUrge |-> 10000, lifespan |-> 100000]

\* The world a constructor or a tick starts from.  The logs record the tick:
\* the calls and the pairs of the interaction pass, and the array as
\* updateAnimals leaves it (updated) and as the pass leaves it (interacted),
\* and, in the order they are made, the calls of Environment.update, of each
\* animal's update and of each pair's examination (calls); threw tells that
\* an exception left the call
World(allAnimals, env, seed, firstId) ==
    [animals |-> allAnimals, env |-> env, seed |-> seed, k |-> 0, nextId |-> firstId,
     mateCalls |-> << >>, reproduceCalls |-> << >>, pairs |-> << >>,
     updated |-> << >>, interacted |-> << >>, calls |-> << >>, threw |-> FALSE]

\* Simulation.initializeHerbivores(count)
RECURSIVE initializeHerbivores(_, _)
initializeHerbivores(w, count) ==
    IF count <= 0 THEN w
    ELSE LET at == getRandomPosition(w.env, "LAND", w.seed, w.k)
             herbivore == NewHerbivore(w.nextId, at.position, DEFAULT_HERBIVORE_TRAITS, 1)
         IN  initializeHerbivores(
                 [w EXCEPT !.animals = Append(@, herbivore), !.k = at.k + DrawsPerId,
                           !.nextId = @ + 1],
                 count - 1)

\* Simulation.initializePlants(count)
RECURSIVE initializePlants(_, _)
initializePlants(w, count) ==
    IF count <= 0 THEN w
    ELSE LET terrainType == IF Random(w.seed, w.k) > 300 THEN "FOREST" ELSE "LAND"
             at == getRandomPosition(w.env, terrainType, w.seed, w.k + 1)
             plant == NewResource(w.nextId, at.position, "PLANT",
                                  10000 + Random(w.seed, at.k) * 20,
                                  100 + Mul(Random(w.seed, at.k + 1), 300))
         IN  initializePlants(
                 [w EXCEPT !.env = addResource(@, plant), !.k = at.k + 2 + DrawsPerId,
                           !.nextId = @ + 1],
                 count - 1)

\* Simulation.initializeWaterSources(count)
RECURSIVE initializeWaterSources(_, _)
initializeWaterSources(w, count) ==
    IF count <= 0 THEN w
    ELSE LET at == getRandomPosition(w.env, "WATER", w.seed, w.k)
             water == NewResource(w.nextId, at.position, "WATER",
                                  100000 + Random(w.seed, at.k) * 200,
                                  1000 + Random(w.seed, at.k + 1) * 2)
         IN  initializeWaterSources(
                 [w EXCEPT !.env = addResource(@, water), !.k = at.k + 2 + DrawsPerId,
                           !.nextId = @ + 1],
                 count - 1)

\* The constructor of Simulation, and the part of reset that rebuilds the world
NewSimulation(config, seed, firstId) ==
    initializeWaterSources(
        initializePlants(
            initializeHerbivores(
                World(<< >>, NewEnvironment(config.environmentConfig), seed, firstId),
                config.initialHerbivores),
            config.initialPlants),
        config.initialWaterSources)

\* Simulation.updateAnimals(deltaTime): forEach over the array, from index i;
\* an exception thrown by an update ends it
RECURSIVE updateAnimalsFrom(_, _, _)
updateAnimalsFrom(w, i, deltaTime) ==
    IF i > Len(w.animals) \/ w.threw THEN w
    ELSE updateAnimalsFrom(
             UpdateAnimalAt([w EXCEPT !.calls = Append(@, <<"update", w.animals[i].id>>)],
                            i, deltaTime),
             i + 1, deltaTime)

\* An updateAnimals that goes over the array twice (not the code: used to show
\* that the once-per-tick property depends on the single forEach)
updateAnimalsTwice(w, deltaTime) ==
    updateAnimalsFrom(updateAnimalsFrom(w, 1, deltaTime), 1, deltaTime)

updateAnimals(w, deltaTime) == updateAnimalsFrom(w, 1, deltaTime)

\* A loop body in which a parent also reproduces with an animal that is not
\* MATING right after its first litter (not the code: used to show that the
\* bounded-pass property depends on the test of both states)
InteractPairWithFirstborn(w, i, j) ==
    LET animalA == w.animals[i]
        animalB == w.animals[j]
        close == distanceLess(animalA, animalB.position, 2000)
        ready == animalA.energy > 50000 /\ animalB.energy > 50000
        mated == mate(animalA, animalB)
        both == /\ mated.state = "MATING"
                /\ (animalB.state = "MATING" \/ animalA.stats.children = 1)
        offspring == createOffspring(mated, animalB, w.env, w.seed, w.k, w.nextId)
        entry == [a |-> animalA.id, b |-> animalB.id, close |-> close, ready |-> ready,
                  reproduced |-> close /\ ready /\ both]
        logged == [w EXCEPT !.pairs = Append(@, entry),
                            !.calls = Append(@, <<"pair", animalA.id, animalB.id>>)]
    IN  IF ~(close /\ ready) THEN logged
        ELSE IF ~both
        THEN [logged EXCEPT !.animals[i] = mated,
                            !.mateCalls = Append(@, <<animalA.id, animalB.id>>)]
        ELSE [logged EXCEPT
                 !.animals = [w.animals EXCEPT ![i] = reproduce(mated)] \o offspring,
                 !.k = @ + DrawsPerChild * Len(offspring),
                 !.nextId = @ + Len(offspring),
                 !.mateCalls = Append(@, <<animalA.id, animalB.id>>),
                 !.reproduceCalls = Append(@, <<animalA.id, animalB.id>>)]

\* The body of the inner loop of handleAnimalInteractions for the live pair
\* (animalA, animalB) at indices i < j
InteractPair(w, i, j) ==
    LET animalA == w.animals[i]
        animalB == w.animals[j]
        close == distanceLess(animalA, animalB.position, 2000)
        ready == animalA.energy > 50000 /\ animalB.energy > 50000
        mated == mate(animalA, animalB)
        both == mated.state = "MATING" /\ animalB.state = "MATING"
        offspring == createOffspring(mated, animalB, w.env, w.seed, w.k, w.nextId)
        entry == [a |-> animalA.id, b |-> animalB.id, close |-> close, ready |-> ready,
                  reproduced |-> close /\ ready /\ both]
        logged == [w EXCEPT !.pairs = Append(@, entry),
                            !.calls = Append(@, <<"pair", animalA.id, animalB.id>>)]
    IN  IF ~(close /\ ready) THEN logged
        ELSE IF ~both
        THEN [logged EXCEPT !.animals[i] = mated,
                            !.mateCalls = Append(@, <<animalA.id, animalB.id>>)]
        ELSE [logged EXCEPT
                 !.animals = [w.animals EXCEPT ![i] = reproduce(mated)] \o offspring,
                 !.k = @ + DrawsPerChild * Len(offspring),
                 !.nextId = @ + Len(offspring),
                 !.mateCalls = Append(@, <<animalA.id, animalB.id>>),
                 !.reproduceCalls = Append(@, <<animalA.id, animalB.id>>)]

\* Simulation.handleAnimalInteractions(): the two loops, both bounded by the
\* length the array has when the bound is tested
RECURSIVE handleAnimalInteractionsFrom(_, _, _)
handleAnimalInteractionsFrom(w, i, j) ==
    IF i > Len(w.animals) THEN w
    ELSE IF w.animals[i].isDead \/ j > Len(w.animals)
    THEN handleAnimalInteractionsFrom(w, i + 1, i + 2)
    ELSE IF w.animals[j].isDead
    THEN handleAnimalInteractionsFrom(w, i, j + 1)
    ELSE handleAnimalInteractionsFrom(InteractPair(w, i, j), i, j + 1)

handleAnimalInteractions(w) == handleAnimalInteractionsFrom(w, 1, 2)

\* Variant: removeDeadAnimals that removes nothing
removeNoAnimals(w) == w

\* Simulation.removeDeadAnimals()
removeDeadAnimals(w) ==
    LET alive(a) == ~a.isDead
    IN  [w EXCEPT !.animals = SelectSeq(@, alive)]

\* A spawn of one batch for each multiple of 10 crossed (not the code: used to
\* show that the spawn property depends on the single batch per tick)
spawnResourcesPerMultiple(w, now, deltaTime) ==
    LET crossed == now \div 10000 - (now - deltaTime) \div 10000
    IN  IF crossed > 0
        THEN initializePlants([w EXCEPT !.k = @ + 1],
                              crossed * (2 + Floor(Random(w.seed, w.k) * 3)))
        ELSE w

\* Simulation.spawnResources(deltaTime), at simulation time now
spawnResources(w, now, deltaTime) ==
    IF now \div 10000 > (now - deltaTime) \div 10000
    THEN initializePlants([w EXCEPT !.k = @ + 1],
                          2 + Floor(Random(w.seed, w.k) * 3))
    ELSE w

\* The reduce of Simulation.getStatistics that sums the generations of the first
\* n animals
RECURSIVE totalGenerations(_, _)
totalGenerations(allAnimals, n) ==
    IF n = 0 THEN 0
    ELSE totalGenerations(allAnimals, n - 1) + allAnimals[n].stats.generation

\* The reduce of Simulation.getStatistics that takes the largest generation of
\* the first n animals, starting from 0
RECURSIVE highestGeneration(_, _)
highestGeneration(allAnimals, n) ==
    IF n = 0 THEN 0
    ELSE Max(highestGeneration(allAnimals, n - 1), allAnimals[n].stats.generation)

\* Simulation.getStatistics(): the record returned through getState().  The
\* counts are plain integers, averageGeneration is in thousandths.
getStatistics(allAnimals, time) ==
    LET totalAnimals == Len(allAnimals)
        herbivores == Cardinality({i \in 1..Len(allAnimals) :
                                      allAnimals[i].kind = "Herbivore"})
    IN  [totalAnimals |-> totalAnimals,
         herbivoreCount |-> herbivores,
         averageGeneration |->
             IF totalAnimals > 0
             THEN (totalGenerations(allAnimals, totalAnimals) * 1000) \div totalAnimals
             ELSE 0,
         highestGeneration |-> highestGeneration(allAnimals, totalAnimals),
         simulationTime |-> time]

\* A time scale bounded from below only (not the code: used to show that the
\* time-scale property depends on the upper clamp)
ClampTimeScaleFromBelow(scale) == Max(100, scale)

\* Simulation.setTimeScale(scale): the value stored
ClampTimeScale(scale) == Max(100, Min(10000, scale))

\* Simulation.update(deltaTime) of a running simulation, after the time scale
\* is applied: the world at the end
SimulationUpdate(w, now, scaledDelta) ==
    LET e == EnvironmentUpdate(w.env, scaledDelta, w.seed, w.k)
        moved == updateAnimals([w EXCEPT !.env = e.env, !.k = e.k,
                                         !.calls = Append(@, <<"environment">>)],
                               scaledDelta)
        met == handleAnimalInteractions([moved EXCEPT !.updated = moved.animals])
    IN  IF moved.threw THEN moved
        ELSE spawnResources(removeDeadAnimals([met EXCEPT !.interacted = met.animals]),
                            now, scaledDelta)

-----------------------------------------------------------------------------
(* The simulation driven through its public methods *)

\* Largest number of update and reset calls explored
MaxTicks == 2

\* The configurations the constructor and reset are given
SimulationConfigs ==
    {[environmentConfig |-> EnvironmentConfig, initialHerbivores |-> 3,
      initialPlants |-> 1, initialWaterSources |-> 1],
     [environmentConfig |-> EnvironmentConfig, initialHerbivores |-> 2,
      initialPlants |-> 2, initialWaterSources |-> 0]}

\* The real-time steps passed to update, and the scales passed to setTimeScale
DeltaTimes == {1000, 10000}
TimeScales == {50, 1000, 20000}

Init ==
    \E config \in SimulationConfigs, seed \in Seeds :
        LET w == NewSimulation(config, seed, 1)
        IN  /\ animals = w.animals
            /\ environment = w.env
            /\ simulationTime = 0
            /\ isRunning = FALSE
            /\ timeScale = 1000
            /\ nextId = w.nextId
            /\ steps = 0
            /\ last = [op |-> "new"]

\* Simulation.start()
Start ==
    /\ ~isRunning
    /\ isRunning' = TRUE
    /\ last' = [op |-> "start"]
    /\ UNCHANGED <<animals, environment, simulationTime, timeScale, nextId, steps>>

\* Simulation.pause()
Pause ==
    /\ isRunning
    /\ isRunning' = FALSE
    /\ last' = [op |-> "pause"]
    /\ UNCHANGED <<animals, environment, simulationTime, timeScale, nextId, steps>>

\* Simulation.setTimeScale(scale)
SetTimeScale(scale) ==
    /\ timeScale' = ClampTimeScale(scale)
    /\ last' = [op |-> "setTimeScale", scale |-> scale]
    /\ UNCHANGED <<animals, environment, simulationTime, isRunning, nextId, steps>>

\* A reset that leaves a running simulation running (not the code: used to show
\* that the reset property depends on the pause)
ResetWithoutPause(config, seed) ==
    LET w == NewSimulation(config, seed, nextId)
    IN  /\ steps < MaxTicks
        /\ animals' = w.animals
        /\ environment' = w.env
        /\ simulationTime' = 0
        /\ nextId' = w.nextId
        /\ steps' = steps + 1
        /\ last' = [op |-> "reset", config |-> config, running |-> isRunning,
                    time |-> simulationTime]
        /\ UNCHANGED <<isRunning, timeScale>>

\* Simulation.reset(config)
Reset(config, seed) ==
    LET w == NewSimulation(config, seed, nextId)
    IN  /\ steps < MaxTicks
        /\ animals' = w.animals
        /\ environment' = w.env
        /\ simulationTime' = 0
        /\ isRunning' = FALSE
        /\ nextId' = w.nextId
        /\ steps' = steps + 1
        /\ last' = [op |-> "reset", config |-> config, running |-> isRunning,
                    time |-> simulationTime]
        /\ UNCHANGED timeScale

\* An update that lets time pass while paused (not the code: used to show that
\* the paused-update property depends on the early return)
UpdatePausedAdvancesTime(deltaTime) ==
    /\ ~isRunning
    /\ steps < MaxTicks
    /\ steps' = steps + 1
    /\ simulationTime' = simulationTime + Mul(deltaTime, timeScale)
    /\ last' = [op |-> "update", ran |-> FALSE, deltaTime |-> deltaTime]
    /\ UNCHANGED <<animals, environment, isRunning, timeScale, nextId>>

\* Simulation.update(deltaTime) while paused: returns at once
UpdatePaused(deltaTime) ==
    /\ ~isRunning
    /\ last' = [op |-> "update", ran |-> FALSE, deltaTime |-> deltaTime]
    /\ UNCHANGED <<animals, environment, simulationTime, isRunning, timeScale,
                   nextId, steps>>

\* Simulation.update(deltaTime) while running
Update(deltaTime, seed) ==
    LET scaledDelta == Mul(deltaTime, timeScale)
        now == simulationTime + scaledDelta
        w == SimulationUpdate(World(animals, environment, seed, nextId), now, scaledDelta)
    IN  /\ isRunning
        /\ steps < MaxTicks
        /\ animals' = w.animals
        /\ environment' = w.env
        /\ simulationTime' = now
        /\ nextId' = w.nextId
        /\ steps' = steps + 1
        /\ last' = [op |-> "update", ran |-> TRUE, deltaTime |-> deltaTime,
                    scaledDelta |-> scaledDelta,
                    updated |-> w.updated,
                    interacted |-> w.interacted,
                    mateCalls |-> w.mateCalls,
                    reproduceCalls |-> w.reproduceCalls, pairs |-> w.pairs,
                    calls |-> w.calls]
        /\ UNCHANGED <<isRunning, timeScale>>

Next ==
    \/ Start
    \/ Pause
    \/ \E scale \in TimeScales : SetTimeScale(scale)
    \/ \E config \in SimulationConfigs, seed \in Seeds : Reset(config, seed)
    \/ \E deltaTime \in DeltaTimes : UpdatePaused(deltaTime)
    \/ \E deltaTime \in DeltaTimes, seed \in Seeds : Update(deltaTime, seed)

Spec == Init /\ [][Next]_vars

TypeOK ==
    /\ isRunning \in BOOLEAN
    /\ timeScale \in 100..10000
    /\ \A i \in 1..Len(animals) : animals[i].state \in AnimalStates

-----------------------------------------------------------------------------
(* Animals called directly, as the unit tests do: the public methods of     *)
(* Herbivore and Carnivore on animals placed in one environment, with their *)
(* public fields (age, energy, lastHuntTime) set after construction.        *)

\* Largest number of direct calls explored
MaxCalls == 2

\* The traits of the carnivores the tests construct (src/unnamed/part_002)
CarnivoreTraits ==
    [speed |-> 3000, strength |-> 7000, perception |-> 10000, metabolism |-> 700,
     reproductiveUrge |-> 8000, lifespan |-> 90000]

\* The animals the direct calls start from.  A herbivore is given its age,
\* energy and lifespan; a carnivore its energy, lastHuntTime, strength and
\* generation.
ReadyHerbivore == [kind |-> "Herbivore", age |-> 20000, energy |-> 60000, lifespan |-> 100000]
ShortLivedHerbivore == [kind |-> "Herbivore", age |-> 17000, energy |-> 60000, lifespan |-> 20000]
NewbornHerbivore == [kind |-> "Herbivore", age |-> 0, energy |-> 100000, lifespan |-> 100000]
HungryHerbivore == [kind |-> "Herbivore", age |-> 20000, energy |-> 30000, lifespan |-> 100000]
OldHerbivore == [kind |-> "Herbivore", age |-> 99500, energy |-> 60000, lifespan |-> 100000]
TiredHerbivore == [kind |-> "Herbivore", age |-> 20000, energy |-> 49000, lifespan |-> 100000]
HungryCarnivore ==
    [kind |-> "Carnivore", energy |-> 45000, lastHuntTime |-> 10000, strength |-> 7000,
     generation |-> 1]
WeakCarnivore ==
    [kind |-> "Carnivore", energy |-> 45000, lastHuntTime |-> 10000, strength |-> 1000,
     generation |-> 1]
StrongCarnivore ==
    [kind |-> "Carnivore", energy |-> 80000, lastHuntTime |-> 0, strength |-> 7000,
     generation |-> 3]
FedCarnivore ==
    [kind |-> "Carnivore", energy |-> 71000, lastHuntTime |-> 0, strength |-> 7000,
     generation |-> 1]
RestingCarnivore ==
    [kind |-> "Carnivore", energy |-> 65000, lastHuntTime |-> 0, strength |-> 7000,
     generation |-> 1]

\* The three animals of each starting world, in array order
Scenarios ==
    {<<ReadyHerbivore, ReadyHerbivore, HungryCarnivore>>,
     <<ShortLivedHerbivore, ReadyHerbivore, WeakCarnivore>>,
     <<NewbornHerbivore, TiredHerbivore, WeakCarnivore>>,
     <<HungryHerbivore, ReadyHerbivore, StrongCarnivore>>,
     <<OldHerbivore, ShortLivedHerbivore, HungryCarnivore>>,
     <<ReadyHerbivore, FedCarnivore, StrongCarnivore>>,
     <<ReadyHerbivore, RestingCarnivore, StrongCarnivore>>}

MakeHerbivore(id, position, p) ==
    [NewHerbivore(id, position, [DEFAULT_HERBIVORE_TRAITS EXCEPT !.lifespan = p.lifespan], 1)
        EXCEPT !.age = p.age, !.energy = p.energy]

MakeCarnivore(id, position, p) ==
    [NewCarnivore(id, position, [CarnivoreTraits EXCEPT !.strength = p.strength],
                  p.generation)
        EXCEPT !.age = 20000, !.energy = p.energy, !.lastHuntTime = p.lastHuntTime]

MakeAnimal(id, position, p) ==
    IF p.kind = "Carnivore" THEN MakeCarnivore(id, position, p)
    ELSE MakeHerbivore(id, position, p)

\* The environment of the direct calls: a small plant within reach of the
\* first herbivore and a regenerating one further off
AgentsEnvironment ==
    addResource(
        addResource(NewEnvironment(EnvironmentConfig),
                    NewResource(1, [x |-> 3200, y |-> 3600], "PLANT", 1500, 0)),
        NewResource(2, [x |-> 6000, y |-> 6000], "PLANT", 10000, 200))

InitAgents ==
    \E scenario \in Scenarios :
        /\ animals = <<MakeAnimal(3, [x |-> 3200, y |-> 3200], scenario[1]),
                       MakeAnimal(4, [x |-> 3200, y |-> 3700], scenario[2]),
                       MakeAnimal(5, [x |-> 3700, y |-> 3200], scenario[3])>>
        /\ environment = AgentsEnvironment
        /\ simulationTime = 0
        /\ isRunning = FALSE
        /\ timeScale = 1000
        /\ nextId = 6
        /\ steps = 0
        /\ last = [op |-> "new"]

Called(op, i) ==
    /\ steps < MaxCalls
    /\ steps' = steps + 1
    /\ last' = [op |-> op, self |-> i]
    /\ UNCHANGED <<simulationTime, isRunning, timeScale>>

\* animals[i].update(deltaTime)
CallUpdate(i, deltaTime, seed) ==
    LET w == UpdateAnimalAt(World(animals, environment, seed, nextId), i, deltaTime)
    IN  /\ steps < MaxCalls
        /\ steps' = steps + 1
        /\ last' = [op |-> "update", self |-> i, deltaTime |-> deltaTime]
        /\ UNCHANGED <<simulationTime, isRunning, timeScale>>
        /\ animals' = w.animals
        /\ environment' = w.env
        /\ UNCHANGED nextId

\* animals[i].sleep(5)
CallSleep(i) ==
    /\ Called("sleep", i)
    /\ animals' = [animals EXCEPT ![i] = sleep(@)]
    /\ UNCHANGED <<environment, nextId>>

\* animals[i].move(direction)
CallMove(i, direction) ==
    /\ Called("move", i)
    /\ animals' = [animals EXCEPT ![i] = move(@, direction)]
    /\ UNCHANGED <<environment, nextId>>

\* animals[i].eat(resourceType)
CallEat(i, resourceType) ==
    /\ Called("eat", i)
    /\ animals' = [animals EXCEPT ![i] = eat(@, resourceType)]
    /\ UNCHANGED <<environment, nextId>>

\* animals[i].mate(animals[j])
CallMate(i, j) ==
    /\ i # j
    /\ steps < MaxCalls
    /\ steps' = steps + 1
    /\ last' = [op |-> "mate", self |-> i, partner |-> j]
    /\ animals' = [animals EXCEPT ![i] = mate(@, animals[j])]
    /\ UNCHANGED <<environment, nextId, simulationTime, isRunning, timeScale>>

\* animals[i].reproduce(animals[j]): the offspring are returned to the caller
CallReproduce(i, j, seed) ==
    LET offspring == createOffspring(animals[i], animals[j], environment, seed, 0, nextId)
    IN  /\ i # j
        /\ steps < MaxCalls
        /\ steps' = steps + 1
        /\ last' = [op |-> "reproduce", self |-> i, partner |-> j,
                    offspring |-> offspring]
        /\ animals' = [animals EXCEPT ![i] = reproduce(@)]
        /\ nextId' = nextId + Len(offspring)
        /\ UNCHANGED <<environment, simulationTime, isRunning, timeScale>>

\* animals[i].die()
CallDie(i) ==
    /\ Called("die", i)
    /\ animals' = [animals EXCEPT ![i] = die(@)]
    /\ UNCHANGED <<environment, nextId>>

\* animals[i].attackPrey(animals[j]) called directly, on the prey hunt() is
\* written to pass it: a living herbivore
CallAttackPrey(i, j, seed) ==
    LET w == attackPrey(World(animals, environment, seed, nextId), i, j)
    IN  /\ i # j
        /\ animals[i].kind = "Carnivore"
        /\ animals[j].kind = "Herbivore" /\ ~animals[j].isDead
        /\ steps < MaxCalls
        /\ steps' = steps + 1
        /\ last' = [op |-> "attackPrey", self |-> i, prey |-> j, r |-> Random(seed, 0)]
        /\ animals' = w.animals
        /\ UNCHANGED <<environment, nextId, simulationTime, isRunning, timeScale>>

\* The public setter of Animal.energy: the value is stored as it is given
setEnergy(a, value) == [a EXCEPT !.energy = value]

\* animals[i].energy = value
CallSetEnergy(i, value) ==
    /\ steps < MaxCalls
    /\ steps' = steps + 1
    /\ last' = [op |-> "setEnergy", self |-> i, value |-> value]
    /\ animals' = [animals EXCEPT ![i] = setEnergy(@, value)]
    /\ UNCHANGED <<environment, nextId, simulationTime, isRunning, timeScale>>

\* The values the setter is given: below the range, inside it and above it
SetEnergyValues == {-5000, 30000, 150000}

\* The steps, directions and resource types the direct calls are given
CallDeltaTimes == {1000, 10000}
CallDirections == {"EAST", "SOUTHWEST"}
CallResourceTypes == {"PLANT", "SMALL_ANIMAL"}

\* The method calls: update, the state actions, mate, reproduce, die and the
\* carnivore's attack
NextMethodCalls ==
    \/ \E i \in 1..Len(animals), deltaTime \in CallDeltaTimes, seed \in Seeds :
          CallUpdate(i, deltaTime, seed)
    \/ \E i \in 1..Len(animals) : CallSleep(i)
    \/ \E i \in 1..Len(animals), direction \in CallDirections : CallMove(i, direction)
    \/ \E i \in 1..Len(animals), resourceType \in CallResourceTypes :
          CallEat(i, resourceType)
    \/ \E i, j \in 1..Len(animals) : CallMate(i, j)
    \/ \E i, j \in 1..Len(animals), seed \in Seeds : CallReproduce(i, j, seed)
    \/ \E i \in 1..Len(animals) : CallDie(i)
    \/ \E i, j \in 1..Len(animals), seed \in Seeds : CallAttackPrey(i, j, seed)

\* Animals on which only methods are called
SpecMethodCalls == InitAgents /\ [][NextMethodCalls]_vars

\* Every public operation: the method calls and the assignment to energy
NextAgents ==
    \/ NextMethodCalls
    \/ \E i \in 1..Len(animals), value \in SetEnergyValues : CallSetEnergy(i, value)

SpecAgents == InitAgents /\ [][NextAgents]_vars

-----------------------------------------------------------------------------
(* Resources called directly: an environment of two resources of any starting
   amount and regeneration rate, on which a caller makes any sequence of
   Resource.consume, Resource.update and Environment.update calls, as the
   Resource and Environment tests do.  `last` records the call and, for
   consume, the value it returned. *)

\* The number of calls explored
MaxResourceCalls == 3

\* The amounts and regeneration rates the resources are constructed with, the
\* amounts asked of consume and the steps given to update
ResourceAmounts == {0, 1500, 10000}
RegenerationRates == {0, 200}
ConsumeAmounts == {0, 1000, 20000}
ResourceDeltaTimes == {1000, 50000}

\* new Environment(config) followed by addResource of new Resource(...), twice
ResourcesEnvironment(amountA, rateA, amountB, rateB) ==
    addResource(
        addResource(NewEnvironment(EnvironmentConfig),
                    NewResource(1, [x |-> 2000, y |-> 2000], "PLANT", amountA, rateA)),
        NewResource(2, [x |-> 6000, y |-> 6000], "WATER", amountB, rateB))

InitResources ==
    \E amountA \in ResourceAmounts, amountB \in ResourceAmounts,
       rateA \in RegenerationRates, rateB \in RegenerationRates :
        /\ animals = <<>>
        /\ environment = ResourcesEnvironment(amountA, rateA, amountB, rateB)
        /\ simulationTime = 0
        /\ isRunning = FALSE
        /\ timeScale = 1000
        /\ nextId = 3
        /\ steps = 0
        /\ last = [op |-> "new"]

\* environment.resources[i].consume(consumeAmount)
CallConsume(i, consumeAmount) ==
    /\ steps < MaxResourceCalls
    /\ steps' = steps + 1
    /\ last' = [op |-> "consume", id |-> environment.resources[i].id,
                consumeAmount |-> consumeAmount,
                returned |-> ResourceConsumed(environment.resources[i], consumeAmount)]
    /\ environment' = [environment EXCEPT
                          !.resources[i] = ResourceConsume(@, consumeAmount)]
    /\ UNCHANGED <<animals, simulationTime, isRunning, timeScale, nextId>>

\* environment.resources[i].update(deltaTime)
CallResourceUpdate(i, deltaTime) ==
    /\ steps < MaxResourceCalls
    /\ steps' = steps + 1
    /\ last' = [op |-> "resourceUpdate", id |-> environment.resources[i].id,
                deltaTime |-> deltaTime]
    /\ environment' = [environment EXCEPT
                          !.resources[i] = ResourceUpdate(@, deltaTime)]
    /\ UNCHANGED <<animals, simulationTime, isRunning, timeScale, nextId>>

\* environment.update(deltaTime)
CallEnvironmentUpdate(deltaTime, seed) ==
    /\ steps < MaxResourceCalls
    /\ steps' = steps + 1
    /\ last' = [op |-> "environmentUpdate", deltaTime |-> deltaTime]
    /\ environment' = EnvironmentUpdate(environment, deltaTime, seed, 0).env
    /\ UNCHANGED <<animals, simulationTime, isRunning, timeScale, nextId>>

NextResources ==
    \/ \E i \in 1..Len(environment.resources), consumeAmount \in ConsumeAmounts :
          CallConsume(i, consumeAmount)
    \/ \E i \in 1..Len(environment.resources), deltaTime \in ResourceDeltaTimes :
          CallResourceUpdate(i, deltaTime)
    \/ \E deltaTime \in ResourceDeltaTimes, seed \in Seeds :
          CallEnvironmentUpdate(deltaTime, seed)

SpecResources == InitResources /\ [][NextResources]_vars

-----------------------------------------------------------------------------
(* The terrain queried directly: a new environment on which a caller asks for
   the terrain at positions inside and outside the grid, between
   Environment.update calls, as the Environment tests do.  `last` records the
   position asked and the terrain returned. *)

\* Coordinates below, at, inside, at the end of and beyond an axis of the world
TerrainCoordinates ==
    {-10000, -1, 0, 999, 1000, 2500, 4000, 6300, 7999, 8000, 9999000}

InitTerrain ==
    /\ animals = <<>>
    /\ environment = NewEnvironment(EnvironmentConfig)
    /\ simulationTime = 0
    /\ isRunning = FALSE
    /\ timeScale = 1000
    /\ nextId = 1
    /\ steps = 0
    /\ last = [op |-> "new"]

\* environment.getTerrainAt({x, y})
CallGetTerrainAt(x, y) ==
    /\ last' = [op |-> "getTerrainAt", position |-> [x |-> x, y |-> y],
                returned |-> getTerrainAt(environment, [x |-> x, y |-> y])]
    /\ UNCHANGED <<animals, environment, simulationTime, isRunning, timeScale,
                   nextId, steps>>

NextTerrain ==
    \/ \E x \in TerrainCoordinates, y \in TerrainCoordinates : CallGetTerrainAt(x, y)
    \/ \E deltaTime \in ResourceDeltaTimes, seed \in Seeds :
          CallEnvironmentUpdate(deltaTime, seed)

SpecTerrain == InitTerrain /\ [][NextTerrain]_vars

-----------------------------------------------------------------------------
(* Lifetimes: one agent, as constructed with a metabolism of 50, or with its
   age set half a second short of its lifespan, on which update(1) is called
   again and again, as the Animal tests do.  A second herbivore and the plants
   of the direct-call environment are within its reach. *)

\* The number of successive update(1) calls explored
MaxUpdates == 3

\* The traits of the agents of metabolism 50: every other trait takes a low and
\* a high value
VoraciousTraits ==
    {[speed |-> speed, strength |-> strength, perception |-> perception,
      metabolism |-> 50000, reproductiveUrge |-> 10000, lifespan |-> lifespan] :
        speed \in {1000, 5000}, strength \in {1000, 7000},
        perception \in {3000, 10000}, lifespan \in {20000, 100000}}

\* The traits of the agents whose age is set
AgedTraits ==
    {[DEFAULT_HERBIVORE_TRAITS EXCEPT !.lifespan = lifespan, !.metabolism = metabolism] :
        lifespan \in {20000, 100000}, metabolism \in {500, 700}}

\* new Herbivore(...) or new Carnivore(...), generation 1
NewAnimalOfKind(id, kind, position, traits) ==
    IF kind = "Carnivore" THEN NewCarnivore(id, position, traits, 1)
    ELSE NewHerbivore(id, position, traits, 1)

InitLifetimes ==
    \E kind \in {"Herbivore", "Carnivore"} :
        /\ \/ \E traits \in VoraciousTraits :
                 animals = <<NewAnimalOfKind(3, kind, [x |-> 3200, y |-> 3200], traits),
                             NewHerbivore(4, [x |-> 3200, y |-> 3700],
                                          DEFAULT_HERBIVORE_TRAITS, 1)>>
           \/ \E traits \in AgedTraits :
                 animals = <<[NewAnimalOfKind(3, kind, [x |-> 3200, y |-> 3200], traits)
                                  EXCEPT !.age = traits.lifespan - 500],
                             NewHerbivore(4, [x |-> 3200, y |-> 3700],
                                          DEFAULT_HERBIVORE_TRAITS, 1)>>
        /\ environment = AgentsEnvironment
        /\ simulationTime = 0
        /\ isRunning = FALSE
        /\ timeScale = 1000
        /\ nextId = 5
        /\ steps = 0
        /\ last = [op |-> "new"]

\* animals[1].update(1), once more
CallUpdateAgain(seed) ==
    LET w == UpdateAnimalAt(World(animals, environment, seed, nextId), 1, 1000)
    IN  /\ steps < MaxUpdates
        /\ steps' = steps + 1
        /\ last' = [op |-> "update", self |-> 1, deltaTime |-> 1000]
        /\ animals' = w.animals
        /\ environment' = w.env
        /\ UNCHANGED <<simulationTime, isRunning, timeScale, nextId>>

NextLifetimes == \E seed \in Seeds : CallUpdateAgain(seed)

SpecLifetimes == InitLifetimes /\ [][NextLifetimes]_vars

-----------------------------------------------------------------------------
(* Trait mixing called directly: mixTraits on two trait values, a mutation
   factor and the two values Math.random() returns, as the helpers tests do.
   `last` records the arguments, the draws and the value returned. *)

\* The number of mixTraits calls explored
MaxMixCalls == 1

\* The trait values, mutation factors and draws mixTraits is called with
TraitValues == {0, 500, 2000, 7300, 10000, 20000}
MutationFactors == {0, 100, 500, 1000}
MixDraws == {0, 16, 500, 999}

InitTraits ==
    /\ animals = <<>>
    /\ environment = NewEnvironment(EnvironmentConfig)
    /\ simulationTime = 0
    /\ isRunning = FALSE
    /\ timeScale = 1000
    /\ nextId = 1
    /\ steps = 0
    /\ last = [op |-> "new"]

\* mixTraits(traitA, traitB, mutationFactor), Math.random() returning mixRatio
\* and then r
CallMixTraits(traitA, traitB, mutationFactor, mixRatio, r) ==
    /\ steps < MaxMixCalls
    /\ steps' = steps + 1
    /\ last' = [op |-> "mixTraits", traitA |-> traitA, traitB |-> traitB,
                mutationFactor |-> mutationFactor, mixRatio |-> mixRatio, r |-> r,
                returned |-> mixTraits(traitA, traitB, mutationFactor, mixRatio, r)]
    /\ UNCHANGED <<animals, environment, simulationTime, isRunning, timeScale, nextId>>

\* carnivore.mixParentTrait(traitName, partner) for parents of trait values
\* parentA and parentB, Math.random() returning r1 and then r2
CallMixParentTrait(parentA, parentB, r1, r2) ==
    /\ steps < MaxMixCalls
    /\ steps' = steps + 1
    /\ last' = [op |-> "mixParentTrait", parentA |-> parentA, parentB |-> parentB,
                r1 |-> r1, r2 |-> r2,
                returned |-> mixParentTrait(parentA, parentB, r1, r2)]
    /\ UNCHANGED <<animals, environment, simulationTime, isRunning, timeScale, nextId>>

NextTraits ==
    \/ \E traitA \in TraitValues, traitB \in TraitValues,
          mutationFactor \in MutationFactors, mixRatio \in MixDraws, r \in MixDraws :
          CallMixTraits(traitA, traitB, mutationFactor, mixRatio, r)
    \/ \E parentA \in TraitValues, parentB \in TraitValues,
          r1 \in MixDraws, r2 \in MixDraws :
          CallMixParentTrait(parentA, parentB, r1, r2)

SpecTraits == InitTraits /\ [][NextTraits]_vars

-----------------------------------------------------------------------------
(* Litters: two agents of one species, of any reproductive urges, on which a
   caller calls reproduce, as the Herbivore and Carnivore tests do.  `last`
   records the offspring returned. *)

\* The reproductiveUrge traits of the two parents
ReproductiveUrges == {1000, 10000, 20000, 45000}

\* new Herbivore(...) or new Carnivore(...) with the given reproductiveUrge
NewParent(id, kind, position, urge) ==
    NewAnimalOfKind(id, kind, position,
        IF kind = "Carnivore"
        THEN [CarnivoreTraits EXCEPT !.reproductiveUrge = urge]
        ELSE [DEFAULT_HERBIVORE_TRAITS EXCEPT !.reproductiveUrge = urge])

InitLitters ==
    \E kind \in {"Herbivore", "Carnivore"},
       urgeA \in ReproductiveUrges, urgeB \in ReproductiveUrges :
        /\ animals = <<NewParent(3, kind, [x |-> 3200, y |-> 3200], urgeA),
                       NewParent(4, kind, [x |-> 3200, y |-> 3700], urgeB)>>
        /\ environment = AgentsEnvironment
        /\ simulationTime = 0
        /\ isRunning = FALSE
        /\ timeScale = 1000
        /\ nextId = 5
        /\ steps = 0
        /\ last = [op |-> "new"]

NextLitters ==
    \E i, j \in 1..Len(animals), seed \in Seeds : CallReproduce(i, j, seed)

SpecLitters == InitLitters /\ [][NextLitters]_vars

-----------------------------------------------------------------------------
(* Foraging: one hungry herbivore of perception 3 in an environment of two
   resources, on which a caller makes Resource.consume and update calls, as
   the Herbivore tests do.  The first resource is a plant next to the
   herbivore, further off or out of its range; the second is a plant or water,
   in range or not. *)

FirstPlantPositions ==
    {[x |-> 3600, y |-> 3200], [x |-> 3200, y |-> 5200], [x |-> 7000, y |-> 7000]}
SecondResourcePositions == {[x |-> 5700, y |-> 3200], [x |-> 7900, y |-> 3200]}
PlantAmounts == {1000, 10000}

InitForaging ==
    \E positionA \in FirstPlantPositions, amountA \in PlantAmounts,
       rateA \in RegenerationRates, positionB \in SecondResourcePositions,
       typeB \in {"PLANT", "WATER"} :
        /\ animals =
              <<[NewHerbivore(3, [x |-> 3200, y |-> 3200],
                              [DEFAULT_HERBIVORE_TRAITS EXCEPT !.perception = 3000], 1)
                    EXCEPT !.energy = 30000]>>
        /\ environment =
              addResource(
                  addResource(NewEnvironment(EnvironmentConfig),
                              NewResource(1, positionA, "PLANT", amountA, rateA)),
                  NewResource(2, positionB, typeB, 10000, 0))
        /\ simulationTime = 0
        /\ isRunning = FALSE
        /\ timeScale = 1000
        /\ nextId = 4
        /\ steps = 0
        /\ last = [op |-> "new"]

NextForaging ==
    \/ \E i \in 1..Len(environment.resources), consumeAmount \in ConsumeAmounts :
          CallConsume(i, consumeAmount)
    \/ \E i \in 1..Len(animals), deltaTime \in CallDeltaTimes, seed \in Seeds :
          CallUpdate(i, deltaTime, seed)

SpecForaging == InitForaging /\ [][NextForaging]_vars

-----------------------------------------------------------------------------
(* Hunts: a carnivore, two herbivores (one next to it or further off, one at
   distance 2; each alive or dead) and a second carnivore next to the first,
   on which a caller makes update calls, as the Carnivore tests do.  `last`
   records whether the update called hunt() or attackPrey(), whether it threw
   and, for each animal, the time passed since its previous hunt() (-1: none
   so far). *)

\* The number of update calls explored
MaxHuntUpdates == 2

HunterProfiles ==
    {HungryCarnivore, WeakCarnivore, StrongCarnivore, FedCarnivore, RestingCarnivore,
     [kind |-> "Carnivore", energy |-> 45000, lastHuntTime |-> 5000, strength |-> 7000,
      generation |-> 1]}
FirstPreyPositions == {[x |-> 3200, y |-> 3700], [x |-> 3200, y |-> 5700]}

\* new Herbivore(...), left alive or killed by die()
NewPrey(id, position, alive) ==
    LET prey == NewHerbivore(id, position, DEFAULT_HERBIVORE_TRAITS, 1)
    IN  IF alive THEN prey ELSE die(prey)

InitHunts ==
    \E profile \in HunterProfiles, position \in FirstPreyPositions,
       aliveA \in BOOLEAN, aliveB \in BOOLEAN :
        /\ animals = <<MakeCarnivore(3, [x |-> 3200, y |-> 3200], profile),
                       NewPrey(4, position, aliveA),
                       NewPrey(5, [x |-> 5200, y |-> 3200], aliveB),
                       MakeCarnivore(6, [x |-> 3200, y |-> 3300], FedCarnivore)>>
        /\ environment = AgentsEnvironment
        /\ simulationTime = 0
        /\ isRunning = FALSE
        /\ timeScale = 1000
        /\ nextId = 7
        /\ steps = 0
        /\ last = [op |-> "new", sinceHunt |-> <<-1, -1, -1, -1>>]

\* animals[i].update(deltaTime), with the hunt() and attackPrey() calls it made
CallUpdateHunter(i, deltaTime, seed) ==
    LET w == UpdateAnimalAt(World(animals, environment, seed, nextId), i, deltaTime)
        hunted == \E c \in 1..Len(w.calls) : w.calls[c] = <<"hunt", animals[i].id>>
        attacked == \E c \in 1..Len(w.calls) : w.calls[c] = <<"attackPrey", animals[i].id>>
        elapsed == IF last.sinceHunt[i] = -1 THEN -1 ELSE last.sinceHunt[i] + deltaTime
    IN  /\ steps < MaxHuntUpdates
        /\ steps' = steps + 1
        /\ last' = [op |-> "update", self |-> i, deltaTime |-> deltaTime,
                    hunted |-> hunted, attacked |-> attacked, threw |-> w.threw,
                    elapsed |-> elapsed,
                    sinceHunt |-> [last.sinceHunt EXCEPT
                                      ![i] = IF hunted THEN 0 ELSE elapsed]]
        /\ animals' = w.animals
        /\ environment' = w.env
        /\ UNCHANGED <<simulationTime, isRunning, timeScale, nextId>>

NextHunts ==
    \E i \in 1..Len(animals), deltaTime \in CallDeltaTimes, seed \in Seeds :
        CallUpdateHunter(i, deltaTime, seed)

SpecHunts == InitHunts /\ [][NextHunts]_vars

-----------------------------------------------------------------------------
(* Weather: an environment built with a weather change interval of 10 or 50
   and any initial weather, on which a caller makes Environment.update calls,
   as the Environment tests do. *)

WeatherChangeIntervals == {10000, 50000}
InitialWeathers == {"SUNNY", "STORMY", "HOT"}
WeatherDeltaTimes == {1000, 5000, 10000, 50000}

InitWeather ==
    \E interval \in WeatherChangeIntervals, weather \in InitialWeathers :
        /\ environment =
              NewEnvironment([EnvironmentConfig EXCEPT
                                 !.weatherChangeInterval = interval,
                                 !.initialWeather = weather])
        /\ animals = << >>
        /\ simulationTime = 0
        /\ isRunning = FALSE
        /\ timeScale = 1000
        /\ nextId = 1
        /\ steps = 0
        /\ last = [op |-> "new"]

NextWeather ==
    \E deltaTime \in WeatherDeltaTimes, seed \in Seeds :
        CallEnvironmentUpdate(deltaTime, seed)

SpecWeather == InitWeather /\ [][NextWeather]_vars

-----------------------------------------------------------------------------
(* Properties *)

\* C1: every animal's energy stays within [0, 100] and its health within
\* [0, 100], whatever is called on it: update, sleep, move, eat, mate,
\* reproduce, and a carnivore's attack on it or by it; the same holds for the
\* offspring a call returns.
EnergyAndHealthInRange ==
    /\ \A i \in 1..Len(animals) :
          /\ animals[i].energy >= 0 /\ animals[i].energy <= 100000
          /\ animals[i].health >= 0 /\ animals[i].health <= 100000
    /\ last.op = "reproduce" =>
          \A c \in 1..Len(last.offspring) :
              /\ last.offspring[c].energy >= 0 /\ last.offspring[c].energy <= 100000
              /\ last.offspring[c].health >= 0 /\ last.offspring[c].health <= 100000

\* C1 witness: a carnivore has won an attack (its prey is dead, it has eaten)
\* and the energy it gained was cut off at 100.
AttackFilledEnergy ==
    /\ last.op = "attackPrey"
    /\ animals[last.self].kind = "Carnivore"
    /\ animals[last.self].stats.foodEaten >= 2000
    /\ animals[last.self].energy = 100000
    /\ animals[last.prey].isDead

\* C2: when an update of a running simulation has completed, no animal of
\* the collection is dead.
NoDeadAfterUpdate ==
    (last.op = "update" /\ last.ran) =>
        \A i \in 1..Len(animals) : ~animals[i].isDead

\* C2 witness: an update of a running simulation in which animals died and
\* were removed.
DeadWereRemoved ==
    /\ last.op = "update" /\ last.ran
    /\ \E i \in 1..Len(last.interacted) : last.interacted[i].isDead
    /\ Len(animals) < Len(last.interacted)

\* C3: in update(deltaTime) of a live animal the death check comes right
\* after age += deltaTime and the baseline drain, before the state action and
\* before any decision: if the age has reached the lifespan or the energy is
\* spent, the animal ends DEAD with its position, direction and distance
\* travelled as they were and its energy only drained by the baseline.
DeathCheckBeforeAction ==
    [][\A i \in 1..Len(animals) :
          (/\ last'.op = "update" /\ last'.self = i
           /\ ~animals[i].isDead
           /\ \/ animals[i].age + last'.deltaTime >= animals[i].traits.lifespan
              \/ animals[i].energy
                    - Mul(animals[i].traits.metabolism, last'.deltaTime) <= 0)
          => /\ animals'[i].isDead
             /\ animals'[i].state = "DEAD"
             /\ animals'[i].age = animals[i].age + last'.deltaTime
             /\ animals'[i].position = animals[i].position
             /\ animals'[i].direction = animals[i].direction
             /\ animals'[i].stats.distanceTraveled = animals[i].stats.distanceTraveled
             /\ animals'[i].energy =
                    Max(0, animals[i].energy
                             - Mul(animals[i].traits.metabolism, last'.deltaTime))]_vars

\* C3 witness: an animal that was told to move died of age in its next
\* update, before it moved.
DiedBeforeMoving ==
    /\ last.op = "update"
    /\ animals[last.self].isDead
    /\ animals[last.self].age >= animals[last.self].traits.lifespan
    /\ animals[last.self].direction = "EAST"
    /\ animals[last.self].stats.distanceTraveled = 0

\* C4: update(deltaTime) of a dead animal changes none of its age, energy,
\* health, position, direction, state and stats.
UpdateOfDeadChangesNothing ==
    [][\A i \in 1..Len(animals) :
          (last'.op = "update" /\ last'.self = i /\ animals[i].isDead)
          => /\ animals'[i].age = animals[i].age
             /\ animals'[i].energy = animals[i].energy
             /\ animals'[i].health = animals[i].health
             /\ animals'[i].position = animals[i].position
             /\ animals'[i].direction = animals[i].direction
             /\ animals'[i].state = animals[i].state
             /\ animals'[i].stats = animals[i].stats]_vars

\* C4 witness: update was called on an animal that had been killed before it
\* ever lived through an update.
DeadWasUpdated ==
    /\ last.op = "update"
    /\ animals[last.self].isDead
    /\ animals[last.self].state = "DEAD"
    /\ animals[last.self].stats.timeAlive = 0

\* C5: DEAD is terminal: no call changes the state of an animal whose state
\* is DEAD, and in every state an animal is dead exactly when its state is
\* DEAD.
DeadIsTerminal ==
    [][\A i \in 1..Len(animals) :
          /\ animals[i].state = "DEAD" => animals'[i].state = "DEAD"
          /\ animals'[i].isDead <=> animals'[i].state = "DEAD"]_vars

\* C5: a dead animal was told to sleep, move or eat and is no longer DEAD.
DeadLeftDeadState ==
    /\ last.op \in {"sleep", "move", "eat"}
    /\ animals[last.self].isDead
    /\ animals[last.self].state # "DEAD"

\* The ids of the animals that went into the interaction pass of the last
\* update, and the animal of that id as the pass left it
PassIds == {last.updated[i].id : i \in 1..Len(last.updated)}
AfterPass(id) ==
    last.interacted[CHOOSE i \in 1..Len(last.interacted) : last.interacted[i].id = id]
Calls(log) == {log[c] : c \in 1..Len(log)}

\* C6: in the interaction pass, for every pair of live animals at distance
\* under 2 that both have energy above 50, mate is invoked on both (the first
\* on the second and the second on the first); reproduce is invoked exactly
\* for the pairs that are both MATING afterwards; a pair that fails the
\* distance or the energy test gets neither call.
PassMatesBothOfEachPair ==
    (last.op = "update" /\ last.ran) =>
        \A c \in 1..Len(last.pairs) :
            LET pair == last.pairs[c]
            IN  IF pair.close /\ pair.ready
                THEN /\ <<pair.a, pair.b>> \in Calls(last.mateCalls)
                     /\ <<pair.b, pair.a>> \in Calls(last.mateCalls)
                     /\ pair.reproduced <=>
                            <<pair.a, pair.b>> \in Calls(last.reproduceCalls)
                ELSE /\ <<pair.a, pair.b>> \notin Calls(last.mateCalls)
                     /\ <<pair.b, pair.a>> \notin Calls(last.mateCalls)
                     /\ <<pair.a, pair.b>> \notin Calls(last.reproduceCalls)

\* C6: a pass examined a close pair with energy to spare and invoked mate on
\* the first animal only.
PassMatedOneOfPair ==
    /\ last.op = "update" /\ last.ran
    /\ \E c \in 1..Len(last.pairs) :
          /\ last.pairs[c].close /\ last.pairs[c].ready
          /\ <<last.pairs[c].a, last.pairs[c].b>> \in Calls(last.mateCalls)
          /\ <<last.pairs[c].b, last.pairs[c].a>> \notin Calls(last.mateCalls)

\* Within the reproductive window of its own lifespan
InOwnWindow(a) ==
    /\ a.age >= Mul(a.traits.lifespan, 100)
    /\ a.age <= Mul(a.traits.lifespan, 800)

\* C7: two herbivores at the same position, with energy to mate (more than
\* 50, such as 60), each within the reproductive window of its lifespan and
\* neither MATING, are both MATING after one interaction pass, and the pass
\* has produced at least one offspring, whose traits are all >= 0.
PairAtOnePlaceReproduces ==
    (last.op = "update" /\ last.ran) =>
        \A i, j \in 1..Len(last.updated) :
            LET a == last.updated[i]
                b == last.updated[j]
            IN  (/\ i < j
                 /\ a.kind = "Herbivore" /\ b.kind = "Herbivore"
                 /\ ~a.isDead /\ ~b.isDead
                 /\ a.position = b.position
                 /\ a.energy > 50000 /\ b.energy > 50000
                 /\ InOwnWindow(a) /\ InOwnWindow(b)
                 /\ a.state # "MATING" /\ b.state # "MATING")
                => /\ AfterPass(a.id).state = "MATING"
                   /\ AfterPass(b.id).state = "MATING"
                   /\ \E c \in 1..Len(last.interacted) :
                         /\ last.interacted[c].id \notin PassIds
                         /\ \A n \in 1..Len(TraitNames) :
                               last.interacted[c].traits[TraitNames[n]] >= 0

\* C8: the offspring created in an interaction pass take no part in that
\* pass: none is the receiver or the argument of a mate or reproduce call.
OffspringSitOutThePass ==
    (last.op = "update" /\ last.ran) =>
        \A call \in Calls(last.mateCalls) \cup Calls(last.reproduceCalls) :
            call[1] \in PassIds /\ call[2] \in PassIds

\* C8: a pass created an offspring and then invoked mate with it.
OffspringWasMated ==
    /\ last.op = "update" /\ last.ran
    /\ Len(last.reproduceCalls) > 0
    /\ \E call \in Calls(last.mateCalls) : call[2] \notin PassIds

\* C9: every offspring of reproduce(partner) has generation
\* max(self.generation, partner.generation) + 1, and each call adds exactly
\* one to the receiver's stats.children.
OffspringGenerationIsMaxPlusOne ==
    [][last'.op = "reproduce" =>
          /\ \A c \in 1..Len(last'.offspring) :
                last'.offspring[c].stats.generation =
                    Max(animals[last'.self].stats.generation,
                        animals[last'.partner].stats.generation) + 1
          /\ animals'[last'.self].stats.children =
                animals[last'.self].stats.children + 1]_vars

\* C9: reproduce returned an offspring of the wrong generation.
OffspringOfWrongGeneration ==
    /\ last.op = "reproduce"
    /\ \E c \in 1..Len(last.offspring) :
          last.offspring[c].stats.generation #
              Max(animals[last.self].stats.generation,
                  animals[last.partner].stats.generation) + 1

\* The condition C10 states for a herbivore a to mate with partner
MayMate(a, partner) ==
    /\ partner.kind = "Herbivore"
    /\ a.energy >= 50000 /\ partner.energy >= 50000
    /\ InOwnWindow(a) /\ InOwnWindow(partner)

\* C10: a herbivore's mate(partner) puts it in MATING exactly when the partner
\* is a herbivore, both have energy of at least 50 and each is aged within
\* [0.1, 0.8] of its own lifespan; otherwise the call changes nothing; the
\* partner is never changed.
HerbivoreMatesIffBothFit ==
    [][(last'.op = "mate" /\ animals[last'.self].kind = "Herbivore") =>
          LET a == animals[last'.self]
              partner == animals[last'.partner]
          IN  /\ animals'[last'.partner] = partner
              /\ IF MayMate(a, partner)
                 THEN animals'[last'.self] = [a EXCEPT !.state = "MATING"]
                 ELSE animals'[last'.self] = a]_vars

\* C10: a herbivore went into MATING with a partner that is outside the
\* reproductive window of its own lifespan.
MatedWithPartnerPastWindow ==
    /\ last.op = "mate"
    /\ animals[last.self].kind = "Herbivore"
    /\ animals[last.self].state = "MATING"
    /\ animals[last.partner].kind = "Herbivore"
    /\ ~InOwnWindow(animals[last.partner])

\* Whether animal a is within the mating window of its own lifespan, both ends
\* included
InCarnivoreWindow(a) ==
    /\ a.age >= Mul(a.traits.lifespan, 150)
    /\ a.age <= Mul(a.traits.lifespan, 750)

\* The compatibility rule for a carnivore and a partner: same species, both
\* energies at least 60, both ages inside the window
CarnivoreMayMate(a, partner) ==
    /\ partner.kind = "Carnivore"
    /\ a.energy >= 60000 /\ partner.energy >= 60000
    /\ InCarnivoreWindow(a) /\ InCarnivoreWindow(partner)

\* C11: a carnivore's mate(partner) puts it in state MATING if and only if the
\* partner is a carnivore, both energies are at least 60 and both ages lie in
\* [0.15*lifespan, 0.75*lifespan]; mating with a herbivore never changes the
\* carnivore's state.
CarnivoreMatesIffBothFit ==
    [][(last'.op = "mate" /\ animals[last'.self].kind = "Carnivore"
            /\ animals[last'.self].state # "MATING")
        => /\ (animals'[last'.self].state = "MATING")
                <=> CarnivoreMayMate(animals[last'.self], animals[last'.partner])
           /\ animals[last'.partner].kind # "Carnivore"
                => animals'[last'.self].state = animals[last'.self].state]_vars

\* A carnivore with energy between 60 and 70 has called mate on a carnivore that
\* fits the rule as it does itself, and is not MATING
FitCarnivoreDidNotMate ==
    /\ last.op = "mate"
    /\ animals[last.self].kind = "Carnivore"
    /\ animals[last.partner].kind = "Carnivore"
    /\ animals[last.self].energy >= 60000 /\ animals[last.self].energy <= 70000
    /\ animals[last.partner].energy >= 60000
    /\ InCarnivoreWindow(animals[last.self])
    /\ InCarnivoreWindow(animals[last.partner])
    /\ animals[last.self].state # "MATING"
    /\ steps = 1

\* C12: an attack succeeds iff strength*(1 + r*0.5) exceeds
\* prey.speed*0.5 + prey.energy*0.01.  On success the predator's energy rises
\* by exactly min(prey.health*0.5, 50), capped at 100, its foodEaten rises by
\* exactly 1 and the prey is dead on return; on failure the predator's energy
\* falls by exactly 10, floored at 0, and the prey is unchanged.
AttackResolvesAsStated ==
    [][last'.op = "attackPrey"
        => LET predator == animals[last'.self]
               prey == animals[last'.prey]
               attackPower == Mul(predator.traits.strength, 1000 + Mul(last'.r, 500))
               preyDefense == Mul(prey.traits.speed, 500) + Mul(prey.energy, 10)
               after == animals'[last'.self]
           IN  IF attackPower > preyDefense
               THEN /\ after.energy
                         = Min(100000, predator.energy + Min(Mul(prey.health, 500), 50000))
                    /\ after.stats.foodEaten = predator.stats.foodEaten + 1000
                    /\ animals'[last'.prey].isDead
               ELSE /\ after.energy = Max(0, predator.energy - 10000)
                    /\ animals'[last'.prey] = prey]_vars

\* The first call made was an attack that killed the prey, and the predator,
\* which had eaten nothing before, counts two meals
AttackCountedTwoMeals ==
    /\ last.op = "attackPrey"
    /\ steps = 1
    /\ animals[last.prey].isDead
    /\ animals[last.self].stats.foodEaten = 2000

\* The resource of the given id in an environment (the resources of an
\* environment have distinct ids)
ResourceIds(env) == {env.resources[i].id : i \in 1..Len(env.resources)}

ResourceOf(env, id) ==
    env.resources[CHOOSE i \in 1..Len(env.resources) : env.resources[i].id = id]

\* C13: consume(x), x >= 0, on a resource holding amount A returns min(x, A) and
\* leaves A - min(x, A); on an already depleted resource it returns 0 and leaves
\* the amount unchanged.
ConsumeTakesTheMinimum ==
    [][last'.op = "consume"
        => LET before == ResourceOf(environment, last'.id)
               after == ResourceOf(environment', last'.id)
               x == last'.consumeAmount
           IN  IF before.isDepleted
               THEN last'.returned = 0 /\ after.amount = before.amount
               ELSE /\ last'.returned = Min(x, before.amount)
                    /\ after.amount = before.amount - Min(x, before.amount)]_vars

\* A consume that asked for more than the resource held has returned what was
\* left and emptied it
ConsumedLessThanAsked ==
    /\ last.op = "consume"
    /\ last.returned > 0
    /\ last.returned < last.consumeAmount
    /\ ResourceOf(environment, last.id).amount = 0

\* C14: for resources constructed with amount >= 0 and regeneration rate >= 0,
\* under any sequence of consume(x >= 0) and update(dt >= 0) the amount is never
\* negative and the depleted flag is set exactly when the amount is <= 0.
DepletedIffNothingLeft ==
    \A i \in 1..Len(environment.resources) :
        /\ environment.resources[i].amount >= 0
        /\ environment.resources[i].isDepleted <=> environment.resources[i].amount <= 0

\* After a call a resource holds nothing and yet is not flagged depleted
EmptyButNotDepleted ==
    /\ steps > 0
    /\ \E i \in 1..Len(environment.resources) :
          /\ environment.resources[i].amount <= 0
          /\ ~environment.resources[i].isDepleted

\* C15: after every Environment.update a resource has been removed if and only
\* if it is depleted and its regeneration rate is 0; undepleted resources and
\* depleted ones that regenerate are retained, and getResources() returns
\* exactly the retained ones.
UpdateRemovesOnlySpentResources ==
    [][last'.op = "environmentUpdate"
        => LET retained == {id \in ResourceIds(environment) :
                               ~(ResourceOf(environment, id).isDepleted
                                 /\ ResourceOf(environment, id).regenerationRate = 0)}
           IN  /\ ResourceIds(environment') = retained
               /\ Len(environment'.resources) = Cardinality(retained)
               /\ {environment'.resources[i].id : i \in getResources(environment')}
                     = retained]_vars

\* An Environment.update has removed one of the two resources and kept the
\* other, which is depleted and has a regeneration rate above 0
UpdateKeptDepletedRegenerating ==
    /\ last.op = "environmentUpdate"
    /\ Len(environment.resources) = 1
    /\ environment.resources[1].isDepleted
    /\ environment.resources[1].regenerationRate > 0

\* C16 as stated: Environment.update(dt) regenerates each resource by
\* regenerationRate*dt: every resource present before the update and still
\* present after it has had its amount increased by exactly that product.
UpdateRegeneratesEveryResource ==
    [][last'.op = "environmentUpdate"
        => \A id \in ResourceIds(environment) \cap ResourceIds(environment') :
              ResourceOf(environment', id).amount
                  = ResourceOf(environment, id).amount
                      + Mul(ResourceOf(environment, id).regenerationRate, last'.deltaTime)]_vars

\* C16: Environment.update(dt) increases by exactly regenerationRate*dt the
\* amount of every resource that is not depleted, and leaves the amount of a
\* depleted resource it retains as it was.
UpdateRegeneratesUndepletedResources ==
    [][last'.op = "environmentUpdate"
        => \A id \in ResourceIds(environment) \cap ResourceIds(environment') :
              LET before == ResourceOf(environment, id)
                  after == ResourceOf(environment', id)
              IN  IF before.isDepleted
                  THEN after.amount = before.amount
                  ELSE after.amount
                          = before.amount + Mul(before.regenerationRate, last'.deltaTime)]_vars

\* The second call was an Environment.update that raised an undepleted
\* resource above every starting amount and retained a depleted resource, of a
\* regeneration rate above 0, at amount 0
UpdateGrewOneAndKeptOneEmpty ==
    /\ last.op = "environmentUpdate"
    /\ steps = 2
    /\ \E i, j \in 1..Len(environment.resources) :
          /\ ~environment.resources[i].isDepleted
          /\ environment.resources[i].amount > 10000
          /\ environment.resources[j].isDepleted
          /\ environment.resources[j].regenerationRate > 0
          /\ environment.resources[j].amount = 0

\* C17: a depleted resource does not regenerate: once consume has taken its
\* amount to 0, every later update leaves the amount 0 and the resource
\* depleted, whatever its regeneration rate, and a later consume takes nothing
\* from it.
DepletedStaysDepleted ==
    [][\A id \in ResourceIds(environment) \cap ResourceIds(environment') :
          ResourceOf(environment, id).isDepleted
              => /\ ResourceOf(environment', id).isDepleted
                 /\ ResourceOf(environment', id).amount = 0
                 /\ (last'.op = "consume" /\ last'.id = id) => last'.returned = 0]_vars

\* A resource with a regeneration rate above 0 has been emptied by consume and
\* then updated, and holds nothing
UpdatedDepletedIsEmpty ==
    /\ last.op \in {"resourceUpdate", "environmentUpdate"}
    /\ steps >= 2
    /\ \E i \in 1..Len(environment.resources) :
          /\ environment.resources[i].isDepleted
          /\ environment.resources[i].regenerationRate > 0
          /\ environment.resources[i].amount = 0
          /\ last.op = "resourceUpdate" => last.id = environment.resources[i].id

\* C18: a Simulation is paused when constructed, and update(dt) while paused is
\* a no-op: simulationTime, the agents and their fields, the weather, its timer
\* and the resources are unchanged; update only takes effect between a start()
\* and the next pause() or reset().
PausedUpdateIsNoOp ==
    /\ last.op = "new" => ~isRunning
    /\ [][/\ (last'.op = "update" /\ ~isRunning)
                => /\ simulationTime' = simulationTime
                   /\ animals' = animals
                   /\ environment' = environment
          /\ last'.op = "start" => isRunning'
          /\ last'.op \in {"pause", "reset"} => ~isRunning'
          /\ last'.op \notin {"start", "pause", "reset"} => isRunning' = isRunning]_vars

\* update was called on a paused simulation that had run before
UpdatedWhilePaused ==
    /\ last.op = "update"
    /\ ~isRunning
    /\ simulationTime > 0

\* C19: after any sequence of setTimeScale calls the stored timeScale lies in
\* [0.1, 10], setTimeScale(s) storing min(10, max(0.1, s)); each running
\* update(dt) advances simulationTime by exactly dt*timeScale and gives that
\* same scaled delta to Environment.update (seen in the weather timer) and to
\* every agent's update (seen in the agent's age).
TimeScaleClampedAndApplied ==
    /\ [](timeScale >= 100 /\ timeScale <= 10000)
    /\ [][/\ last'.op = "setTimeScale"
                => timeScale' = Min(10000, Max(100, last'.scale))
          /\ (last'.op = "update" /\ isRunning)
                => LET scaled == Mul(last'.deltaTime, timeScale)
                       timer == environment.weatherTimer + scaled
                   IN  /\ simulationTime' = simulationTime + scaled
                       /\ environment'.weatherTimer
                             = IF timer >= environment.weatherChangeInterval
                               THEN 0 ELSE timer
                       /\ Len(last'.updated) = Len(animals)
                       /\ \A i \in 1..Len(animals) :
                             last'.updated[i].age = animals[i].age + scaled]_vars

\* A running update of 10 seconds was made at the time scale 10, to which a
\* requested scale of 20 had been clamped, and the simulation's time is 100
UpdatedAtClampedScale ==
    /\ last.op = "update"
    /\ last.ran
    /\ last.deltaTime = 10000
    /\ timeScale = 10000
    /\ simulationTime = 100000

\* The ids of the agents in a collection
AnimalIds(allAnimals) == {allAnimals[i].id : i \in 1..Len(allAnimals)}

\* C20: reset(config), called in any state, leaves the simulation paused with
\* simulationTime 0, a newly built Environment and an agent collection made
\* only of the freshly created initial agents (config.initialHerbivores
\* herbivores, all of generation 1); no agent or resource from before the reset
\* survives.
ResetStartsAfresh ==
    [][last'.op = "reset"
        => /\ ~isRunning'
           /\ simulationTime' = 0
           /\ environment'.weather = last'.config.environmentConfig.initialWeather
           /\ environment'.weatherTimer = 0
           /\ ResourceIds(environment') \cap ResourceIds(environment) = {}
           /\ Len(environment'.resources)
                 = last'.config.initialPlants + last'.config.initialWaterSources
           /\ Len(animals') = last'.config.initialHerbivores
           /\ AnimalIds(animals') \cap AnimalIds(animals) = {}
           /\ \A i \in 1..Len(animals') :
                 /\ animals'[i].kind = "Herbivore"
                 /\ animals'[i].stats.generation = 1
                 /\ animals'[i].age = 0
                 /\ animals'[i].energy = 100000
                 /\ ~animals'[i].isDead]_vars

\* reset was called on a running simulation whose time had advanced
ResetWhileRunning ==
    /\ last.op = "reset"
    /\ last.running
    /\ last.time > 0

\* C21: at every tick the statistics of getState() have non-negative counts and
\* satisfy totalAnimals = herbivoreCount + carnivoreCount, with totalAnimals the
\* size of the agent collection; averageGeneration is the mean generation of
\* the collection (0 when it is empty) and highestGeneration its maximum.
StatisticsAddUp ==
    LET statistics == getStatistics(animals, simulationTime)
        generations == {animals[i].stats.generation : i \in 1..Len(animals)}
    IN  /\ statistics.totalAnimals = Len(animals)
        /\ statistics.totalAnimals >= 0 /\ statistics.herbivoreCount >= 0
        /\ animals = <<>> => statistics.averageGeneration = 0
        /\ animals # <<>>
              => /\ statistics.averageGeneration * Len(animals)
                       <= 1000 * totalGenerations(animals, Len(animals))
                 /\ (statistics.averageGeneration + 1) * Len(animals)
                       > 1000 * totalGenerations(animals, Len(animals))
                 /\ statistics.highestGeneration \in generations
                 /\ \A g \in generations : g <= statistics.highestGeneration
        /\ "carnivoreCount" \in DOMAIN statistics
        /\ statistics.carnivoreCount >= 0
        /\ statistics.totalAnimals
              = statistics.herbivoreCount + statistics.carnivoreCount

\* After a running tick the statistics count the agents and carry no
\* carnivoreCount
StatisticsLackCarnivoreCount ==
    /\ last.op = "update"
    /\ last.ran
    /\ getStatistics(animals, simulationTime).totalAnimals = Len(animals)
    /\ Len(animals) > 0
    /\ "carnivoreCount" \notin DOMAIN getStatistics(animals, simulationTime)

\* C22: within one running update every agent in the collection at the start of
\* the tick has update invoked exactly once, in the collection's order, after
\* Environment.update and before the interaction pass; agents added during the
\* tick are not updated in it, and the pass examines each unordered pair of
\* agents at most once.
TickUpdatesEachAgentOnce ==
    [][(last'.op = "update" /\ last'.ran)
        => LET calls == last'.calls
               n == Len(animals)
           IN  /\ Len(calls) >= 1 + n
               /\ calls[1] = <<"environment">>
               /\ \A i \in 1..n : calls[1 + i] = <<"update", animals[i].id>>
               /\ \A c \in (n + 2)..Len(calls) :
                     /\ calls[c][1] = "pair"
                     /\ calls[c][2] # calls[c][3]
                     /\ \A d \in (c + 1)..Len(calls) :
                           {calls[c][2], calls[c][3]} # {calls[d][2], calls[d][3]}]_vars

\* A tick has examined pairs, produced offspring, and left the pass with more
\* agents than it made update calls
TickAddedAgentsWithoutUpdate ==
    /\ last.op = "update"
    /\ last.ran
    /\ Len(last.reproduceCalls) > 0
    /\ Len(last.interacted) > Len(last.updated)
    /\ Cardinality({c \in 1..Len(last.calls) : last.calls[c][1] = "update"})
          = Len(last.updated)
    /\ Cardinality({c \in 1..Len(last.calls) : last.calls[c][1] = "pair"}) > 1

\* Coordinates below, at, inside, at the end of and beyond an axis of the world
SampleCoordinates == {-5000, -1, 0, 1, 3500, 7999, 8000, 8001, 20000}

\* C23: in every reachable state of a Simulation every agent's position
\* satisfies 0 <= x < width and 0 <= y < height; boundPosition maps any position
\* to one with each axis in [0, dimension - 0.001], is the identity on positions
\* already in that range, and is idempotent.
AgentsStayInTheWorld ==
    /\ \A i \in 1..Len(animals) :
          /\ 0 <= animals[i].position.x /\ animals[i].position.x < environment.width
          /\ 0 <= animals[i].position.y /\ animals[i].position.y < environment.height
    /\ \A x \in SampleCoordinates, y \in SampleCoordinates :
          LET position == [x |-> x, y |-> y]
              bounded == boundPosition(environment, position)
          IN  /\ 0 <= bounded.x /\ bounded.x <= environment.width - 1
              /\ 0 <= bounded.y /\ bounded.y <= environment.height - 1
              /\ (/\ 0 <= x /\ x <= environment.width - 1
                  /\ 0 <= y /\ y <= environment.height - 1) => bounded = position
              /\ boundPosition(environment, bounded) = bounded

\* After a tick an agent that has moved stands on an edge of the world
MovedAgentOnTheEdge ==
    /\ last.op = "update"
    /\ last.ran
    /\ \E i \in 1..Len(animals) :
          /\ animals[i].stats.distanceTraveled > 0
          /\ \/ animals[i].position.x \in {0, environment.width - 1}
             \/ animals[i].position.y \in {0, environment.height - 1}

\* C24: getTerrainAt(pos) returns WATER for every position outside the grid
\* (floor(x) < 0, floor(x) >= width, floor(y) < 0 or floor(y) >= height) and the
\* terrain stored at cell (floor(y), floor(x)) for every position inside it;
\* the terrain cells never change after construction.
TerrainOutsideIsWater ==
    /\ environment.terrainMap = initializeTerrainMap
    /\ last.op = "getTerrainAt"
          => LET column == last.position.x \div 1000
                 row == last.position.y \div 1000
             IN  IF column < 0 \/ column >= 8 \/ row < 0 \/ row >= 8
                 THEN last.returned = "WATER"
                 ELSE last.returned = initializeTerrainMap[row + 1][column + 1]

\* After an Environment.update the terrain was asked at a position left of and
\* below the grid, and WATER was returned
AskedTerrainOutsideTheGrid ==
    /\ last.op = "getTerrainAt"
    /\ steps > 0
    /\ last.position.x < 0
    /\ last.position.y >= 8000
    /\ last.returned = "WATER"

\* C25: an agent created with energy 100 and metabolism 50, its other traits
\* positive, is dead after at most 3 successive update(1) calls, whatever states
\* it passes through; an agent whose age is set to lifespan - 0.5 is dead after
\* a single update(1).
DeadWithinThreeUpdates ==
    /\ (animals[1].traits.metabolism = 50000 /\ steps >= 3) => animals[1].isDead
    /\ (animals[1].traits.metabolism # 50000 /\ steps >= 1) => animals[1].isDead

\* An agent of metabolism 50 has been updated three times: it lived through the
\* first update, died in the second, and is dead
VoraciousAgentDied ==
    /\ steps = 3
    /\ animals[1].traits.metabolism = 50000
    /\ animals[1].stats.timeAlive = 2000
    /\ animals[1].isDead

\* C26: mixTraits(a, b, f), a and b >= 0, is the weighted average of a and b
\* plus a mutation, floored at 0: with f = 0 the result always lies in
\* [min(a,b), max(a,b)], and for every f > 0 and every pair of draws the result
\* is >= 0.
MixStaysBetweenParents ==
    last.op = "mixTraits"
        => /\ last.returned >= 0
           /\ last.mutationFactor = 0
                 => /\ last.returned >= Min(last.traitA, last.traitB)
                    /\ last.returned <= Max(last.traitA, last.traitB)

\* mixTraits was called without mutation on two equal values and returned less
\* than they are
MixOfEqualsFellBelow ==
    /\ last.op = "mixTraits"
    /\ last.mutationFactor = 0
    /\ last.traitA = last.traitB
    /\ last.returned < last.traitA

\* C27: one reproduce call returns exactly max(1, floor((urgeA + urgeB) / 30))
\* offspring for herbivores and exactly max(1, floor((urgeA + urgeB) / 40)) for
\* carnivores, urgeA and urgeB being the parents' reproductiveUrge traits; the
\* result is always >= 1.
LitterSizeFollowsUrges ==
    last.op = "reproduce"
        => LET urges == animals[last.self].traits.reproductiveUrge
                            + animals[last.partner].traits.reproductiveUrge
               divisor == IF animals[last.self].kind = "Carnivore" THEN 40000 ELSE 30000
           IN  /\ Len(last.offspring) >= 1
               /\ Len(last.offspring) = Max(1, urges \div divisor)

\* Two carnivores whose urges add up to 80 or more have reproduced and a single
\* offspring was returned
LargeUrgesGaveOneCub ==
    /\ last.op = "reproduce"
    /\ animals[last.self].kind = "Carnivore"
    /\ animals[last.self].traits.reproductiveUrge
          + animals[last.partner].traits.reproductiveUrge >= 80000
    /\ Len(last.offspring) = 1

\* C28: for every agent, stats.children, stats.foodEaten, stats.distanceTraveled
\* and stats.timeAlive never decrease and stats.generation never changes; an
\* agent's counters are changed only by that agent's own update, reproduce, eat
\* or attack, never by another agent acting on it.
CountersGrowAndBelongToTheirAgent ==
    [][\A i \in 1..Len(animals) :
          LET before == animals[i].stats
              after == animals'[i].stats
          IN  /\ after.children >= before.children
              /\ after.foodEaten >= before.foodEaten
              /\ after.distanceTraveled >= before.distanceTraveled
              /\ after.timeAlive >= before.timeAlive
              /\ after.generation = before.generation
              /\ i # last'.self => after = before]_vars

\* A carnivore has killed a herbivore that had lived through an update: the
\* meal is on the carnivore's counters, the prey's are as its own update left them
PreyKilledAfterItsUpdate ==
    /\ last.op = "attackPrey"
    /\ animals[last.prey].isDead
    /\ animals[last.prey].stats.timeAlive > 0
    /\ animals[last.prey].stats.foodEaten = 0
    /\ animals[last.self].stats.foodEaten > 0

\* C29: the herbivore's decision policy runs only in an update where the
\* herbivore is alive and IDLE after its state action; with e the energy at that
\* point, e < 40 leads to food seeking (resulting state EATING or MOVING),
\* 40 <= e < 70 to SLEEPING, and e >= 70 to MOVING in one of the 8 compass
\* directions (never NONE).  A herbivore that is not IDLE takes no decision in
\* that update.
HerbivoreDecidesByEnergy ==
    [][(last'.op = "update" /\ animals[last'.self].kind = "Herbivore")
          => LET acted == AnimalUpdate(animals[last'.self], environment, last'.deltaTime)
                 after == animals'[last'.self]
             IN  IF ~acted.isDead /\ acted.state = "IDLE"
                 THEN CASE acted.energy < 40000 -> after.state \in {"EATING", "MOVING"}
                        [] acted.energy < 70000 ->
                              after = [acted EXCEPT !.state = "SLEEPING"]
                        [] OTHER ->
                              /\ after.state = "MOVING"
                              /\ after.direction \in AllDirections \ {"NONE"}
                              /\ after.position = acted.position
                 ELSE /\ after = acted
                      /\ environment' = environment]_vars

\* An idle herbivore whose energy was between 40 and 70 after its first update
\* is sleeping
ModeratelyTiredHerbivoreSleeps ==
    /\ last.op = "update"
    /\ steps = 1
    /\ animals[last.self].kind = "Herbivore"
    /\ animals[last.self].state = "SLEEPING"
    /\ animals[last.self].energy >= 40000
    /\ animals[last.self].energy < 70000

\* The undepleted plants within the perception radius of an animal
UndepletedPlantsInRange(a, env) ==
    {j \in 1..Len(env.resources) :
        /\ env.resources[j].type = "PLANT"
        /\ ~env.resources[j].isDepleted
        /\ WithinRadius(env.resources[j].position, a.position, a.traits.perception)}

\* C30: herbivore food seeking targets the nearest undepleted PLANT resource
\* within the perception radius: at distance < 1 the herbivore consumes from it,
\* gains consumedAmount * energyValue energy (capped at 100) and increases
\* foodEaten; otherwise it moves toward it; if no undepleted plant is in range it
\* moves in a random compass direction.  A depleted plant is never chosen as
\* the target.
ForagingTargetsNearestUndepletedPlant ==
    [][(last'.op = "update" /\ animals[last'.self].kind = "Herbivore")
          => LET acted == AnimalUpdate(animals[last'.self], environment, last'.deltaTime)
                 after == animals'[last'.self]
                 plants == UndepletedPlantsInRange(acted, environment)
                 target == Closest(acted, [j \in plants |-> environment.resources[j].position])
                 plant == environment.resources[target]
                 consumedAmount == Min(plant.amount, 1000)
             IN  (~acted.isDead /\ acted.state = "IDLE" /\ acted.energy < 40000)
                 => IF plants = {}
                    THEN /\ after.state = "MOVING"
                         /\ after.direction \in AllDirections \ {"NONE"}
                         /\ environment' = environment
                    ELSE IF distanceLess(acted, plant.position, 1000)
                    THEN /\ after.state = "EATING"
                         /\ environment'.resources[target].amount = plant.amount - consumedAmount
                         /\ after.energy =
                               Min(100000, acted.energy + Mul(consumedAmount, energyValue(plant)))
                         /\ after.stats.foodEaten = acted.stats.foodEaten + consumedAmount
                         /\ after.stats.foodEaten > acted.stats.foodEaten
                    ELSE /\ after.state = "MOVING"
                         /\ after.direction = directionTo(acted, plant.position)
                         /\ environment' = environment]_vars

\* A hungry herbivore has been updated next to a depleted plant while an
\* undepleted plant was within its perception radius: it is eating, has eaten
\* nothing, and has not turned to the undepleted plant
HerbivoreAteFromDepletedPlant ==
    /\ last.op = "update"
    /\ animals[last.self].kind = "Herbivore"
    /\ animals[last.self].state = "EATING"
    /\ animals[last.self].stats.foodEaten = 0
    /\ UndepletedPlantsInRange(animals[last.self], environment) # {}
    /\ \E j \in 1..Len(environment.resources) :
          /\ environment.resources[j].isDepleted
          /\ distanceLess(animals[last.self], environment.resources[j].position, 1000)

\* The live herbivores within the perception radius of an animal
LiveHerbivoresInRange(a, allAnimals) ==
    {j \in 1..Len(allAnimals) :
        /\ allAnimals[j].kind = "Herbivore"
        /\ ~allAnimals[j].isDead
        /\ WithinRadius(allAnimals[j].position, a.position, a.traits.perception)}

\* C31: a carnivore that is alive and IDLE hunts only if its energy is < 50 and
\* at least 10 time units have elapsed since its last hunt attempt; otherwise
\* it sleeps if its energy is < 70, and otherwise moves in a random compass
\* direction.  When hunting it considers only live herbivores within
\* perception, attacks the nearest one if it is at distance < 1, moves toward
\* it otherwise, and moves randomly if none is found.  No hunt ever starts less
\* than 10 time units after the previous hunt attempt.
CarnivoreHuntsWhenHungryAndRested ==
    [][(last'.op = "update" /\ animals[last'.self].kind = "Carnivore")
          => LET i == last'.self
                 acted == [AnimalUpdate(animals[i], environment, last'.deltaTime)
                              EXCEPT !.lastHuntTime = @ + last'.deltaTime]
                 after == animals'[i]
                 prey == LiveHerbivoresInRange(acted, animals)
                 nearest == Closest(acted, [j \in prey |-> animals[j].position])
             IN  /\ last'.hunted => (last'.elapsed = -1 \/ last'.elapsed >= 10000)
                 /\ last'.hunted => (~acted.isDead /\ acted.state = "IDLE"
                                        /\ acted.energy < 50000
                                        /\ acted.lastHuntTime >= 10000)
                 /\ last'.attacked => last'.hunted
                 /\ (~acted.isDead /\ acted.state = "IDLE")
                    => CASE acted.energy < 50000 /\ acted.lastHuntTime >= 10000 ->
                              /\ last'.hunted
                              /\ IF prey = {}
                                 THEN /\ after.state = "MOVING"
                                      /\ after.direction \in AllDirections \ {"NONE"}
                                      /\ ~last'.attacked
                                 ELSE IF distanceLess(acted, animals[nearest].position, 1000)
                                 THEN /\ last'.attacked
                                      /\ \/ animals'[nearest].isDead
                                         \/ after.energy = Max(0, acted.energy - 10000)
                                      /\ \A j \in 1..Len(animals) \ {i, nearest} :
                                            animals'[j] = animals[j]
                                 ELSE /\ after.state = "MOVING"
                                      /\ after.direction =
                                            directionTo(acted, animals[nearest].position)
                                      /\ ~last'.attacked
                         [] acted.energy < 70000 ->
                              /\ ~last'.hunted
                              /\ after = [acted EXCEPT !.state = "SLEEPING"]
                         [] OTHER ->
                              /\ ~last'.hunted
                              /\ after.state = "MOVING"
                              /\ after.direction \in AllDirections \ {"NONE"}]_vars

\* A carnivore has hunted again one time unit after its previous hunt, which
\* hunt() left by throwing: it is still IDLE, it has neither attacked nor moved,
\* and live prey is within its perception
HuntedAgainBeforeTheCooldown ==
    /\ last.op = "update"
    /\ last.hunted
    /\ last.threw
    /\ last.elapsed = 1000
    /\ ~last.attacked
    /\ animals[last.self].state = "IDLE"
    /\ LiveHerbivoresInRange(animals[last.self], animals) # {}

\* C32: every hunt attempt by a carnivore resets its hunt cooldown timer,
\* regardless of the outcome of the attempt.
EveryHuntResetsTheCooldown ==
    [][(last'.op = "update" /\ last'.hunted)
          => animals'[last'.self].lastHuntTime = 0]_vars

\* A carnivore has hunted without reaching an attack: its cooldown timer still
\* runs from before the hunt
HuntedWithoutAttackKeptTimer ==
    /\ last.op = "update"
    /\ last.hunted
    /\ ~last.attacked
    /\ animals[last.self].lastHuntTime >= 10000

\* C33: for an agent that survives the death check in update(dt), age and
\* timeAlive each increase by exactly dt; energy first drops by metabolism * dt
\* (floored at 0) and then by state: IDLE drops a further 0.1 * metabolism * dt,
\* MOVING a further 0.2 * speed * dt (and position advances by speed * dt along
\* the current direction, clamped into bounds, with distanceTraveled += speed * dt),
\* MATING a further 10 * dt, SLEEPING rises by 1.5 * metabolism * dt capped at
\* 100, EATING has no further change.  (For an IDLE agent the energy is compared
\* when the decision that follows was to sleep or to move, which cost nothing.)
UpdateAccountsByState ==
    [][(last'.op = "update" /\ ~animals[last'.self].isDead /\ ~animals'[last'.self].isDead)
          => LET before == animals[last'.self]
                 after == animals'[last'.self]
                 dt == last'.deltaTime
                 base == Max(0, before.energy - Mul(before.traits.metabolism, dt))
                 distance == Mul(before.traits.speed, dt)
                 vector == directionVector(before.direction, distance)
             IN  /\ after.age = before.age + dt
                 /\ after.stats.timeAlive = before.stats.timeAlive + dt
                 /\ CASE before.state = "IDLE" ->
                            (after.state \in {"SLEEPING", "MOVING"}) =>
                                after.energy =
                                    Max(0, base - Mul(Mul(100, before.traits.metabolism), dt))
                      [] before.state = "MOVING" ->
                            /\ after.energy =
                                  Max(0, base - Mul(Mul(200, before.traits.speed), dt))
                            /\ after.position =
                                  boundPosition(environment,
                                                [x |-> before.position.x + vector.x,
                                                 y |-> before.position.y + vector.y])
                            /\ after.stats.distanceTraveled =
                                  before.stats.distanceTraveled + distance
                      [] before.state = "MATING" ->
                            after.energy = Max(0, base - 10 * dt)
                      [] before.state = "SLEEPING" ->
                            after.energy =
                                Min(100000, base + Mul(Mul(1500, before.traits.metabolism), dt))
                      [] before.state = "EATING" -> after.energy = base
                      [] OTHER -> TRUE
                 /\ before.state # "MOVING" =>
                        /\ after.position = before.position
                        /\ after.stats.distanceTraveled = before.stats.distanceTraveled]_vars

\* An agent put to sleep by a call has lived through an update and recovered
\* energy
SleeperRecoveredEnergy ==
    /\ last.op = "update"
    /\ steps = 2
    /\ animals[last.self].state = "SLEEPING"
    /\ animals[last.self].stats.timeAlive = last.deltaTime
    /\ ~animals[last.self].isDead

\* C34: a running tick adds new plant resources if and only if
\* floor(t / 10) > floor((t - dt) / 10), t being simulationTime after the tick
\* and dt the scaled delta; when it does, it adds between 2 and 4 plants (a
\* single batch even if the tick crosses several multiples of 10), and a tick
\* that crosses no multiple of 10 adds none.
TickSpawnsOneBatchPerCrossing ==
    [][(last'.op = "update" /\ last'.ran)
          => LET t == simulationTime'
                 dt == last'.scaledDelta
                 added == {j \in 1..Len(environment'.resources) :
                              environment'.resources[j].id \notin ResourceIds(environment)}
             IN  /\ (added # {}) <=> (t \div 10000 > (t - dt) \div 10000)
                 /\ added # {} =>
                        /\ Cardinality(added) \in 2..4
                        /\ \A j \in added : environment'.resources[j].type = "PLANT"]_vars

\* The first tick has crossed ten multiples of 10 at once and the environment
\* holds at most four resources more than a new simulation has
TickCrossedTenMultiples ==
    /\ last.op = "update"
    /\ last.ran
    /\ steps = 1
    /\ last.scaledDelta = 100000
    /\ simulationTime = 100000
    /\ Len(environment.resources) \in 4..6

\* C35: Environment.update(dt) adds dt to a timer; the weather can change only
\* in an update where the accumulated timer reaches weatherChangeInterval, in
\* which case the timer is reset to 0 and the weather is redrawn from the
\* Weather enum (possibly the same value); in every update where the timer
\* stays below the interval the weather is unchanged, and after every update
\* the timer is < weatherChangeInterval.
WeatherChangesWhenTimerReachesInterval ==
    [][last'.op = "environmentUpdate"
          => LET timer == environment.weatherTimer + last'.deltaTime
                 interval == environment.weatherChangeInterval
             IN  /\ IF timer >= interval
                    THEN /\ environment'.weatherTimer = 0
                         /\ environment'.weather \in
                               {WeatherValues[v] : v \in 1..Len(WeatherValues)}
                    ELSE /\ environment'.weatherTimer = timer
                         /\ environment'.weather = environment.weather
                 /\ environment'.weatherTimer < interval
                 /\ environment'.weatherChangeInterval = interval]_vars

\* Updates shorter than the interval have added up to it: the timer is back at
\* 0 and the weather is another one than at the start
WeatherChangedAfterShortUpdates ==
    /\ last.op = "environmentUpdate"
    /\ steps >= 2
    /\ last.deltaTime < environment.weatherChangeInterval
    /\ environment.weatherTimer = 0
    /\ environment.weather \notin InitialWeathers

\* C36: for parent values a, b >= 0 and every pair of random draws, the
\* carnivore's offspring trait lies in [min(a, b), 1.2 * max(a, b)]; it never
\* falls below the smaller parent value.
CarnivoreMixStaysInRange ==
    last.op = "mixParentTrait"
        => /\ last.returned >= Min(last.parentA, last.parentB)
           /\ 1000 * last.returned <= 1200 * Max(last.parentA, last.parentB)

\* The mutation factor of 0.8 has pulled the mix of two different parent values
\* below the smaller one, which was returned instead
MutatedMixWasRaisedToSmallerParent ==
    /\ last.op = "mixParentTrait"
    /\ last.parentA # last.parentB
    /\ last.r2 = 0
    /\ last.returned = Min(last.parentA, last.parentB)
    /\ last.returned > 0

\* C37: IDLE is never re-entered: an agent's state changes only through sleep,
\* move, eat, mate and die, none of which sets IDLE, so once a herbivore has left
\* IDLE it stays out of IDLE for the rest of its life (a sleeping agent never
\* wakes, an eating or mating agent never finishes) and its species decision
\* policy never runs again.
IdleIsNeverReEntered ==
    [][\A i \in 1..Len(animals) :
          animals[i].state # "IDLE"
              => /\ animals'[i].state # "IDLE"
                 /\ (last'.op = "update" /\ last'.self = i)
                        => /\ animals'[i].state \in {animals[i].state, "DEAD"}
                           /\ animals'[i].direction = animals[i].direction
                           /\ environment' = environment
                           /\ \A j \in 1..Len(animals) \ {i} : animals'[j] = animals[j]]_vars

\* A herbivore that went to sleep in its first update has been updated again
\* and is still asleep
SleeperUpdatedAgainStillAsleep ==
    /\ last.op = "update"
    /\ steps = 2
    /\ animals[last.self].kind = "Herbivore"
    /\ animals[last.self].state = "SLEEPING"
    /\ animals[last.self].stats.timeAlive > last.deltaTime

\* C38: in a running simulation ticked with a scaled delta > 0, an agent of
\* lifespan L created at age 0 is DEAD and absent from the collection no later
\* than the end of the first tick in which its accumulated age reaches L,
\* whatever its state and energy history: every agent in the collection is alive,
\* has lived for exactly its age and is younger than its lifespan, and a tick
\* that brings an agent's age to its lifespan removes it.
AgentsGoneOnceAgeReachesLifespan ==
    /\ [](\A i \in 1..Len(animals) :
              /\ ~animals[i].isDead
              /\ animals[i].age = animals[i].stats.timeAlive
              /\ animals[i].age < animals[i].traits.lifespan)
    /\ [][(last'.op = "update" /\ last'.ran)
             => \A i \in 1..Len(animals) :
                   IF animals[i].age + last'.scaledDelta >= animals[i].traits.lifespan
                   THEN animals[i].id \notin AnimalIds(animals')
                   ELSE \A j \in 1..Len(animals') :
                           animals'[j].id = animals[i].id
                               => animals'[j].age = animals[i].age + last'.scaledDelta]_vars

\* In its second tick an agent that had energy left has reached its lifespan:
\* it died in its update and is no longer in the collection
AgedAgentRemovedWithEnergyLeft ==
    /\ last.op = "update"
    /\ last.ran
    /\ steps = 2
    /\ \E i \in 1..Len(last.updated) :
          /\ last.updated[i].isDead
          /\ last.updated[i].state = "DEAD"
          /\ last.updated[i].energy > 0
          /\ last.updated[i].age >= last.updated[i].traits.lifespan
          /\ last.updated[i].age > last.scaledDelta
          /\ last.updated[i].id \notin AnimalIds(animals)

\* The largest litter any two of the given animals can have
LargestLitter(allAnimals) ==
    LET sizes == {0} \cup {HerbivoreLitterSize(allAnimals[i], allAnimals[j]) :
                              i, j \in 1..Len(allAnimals)}
    IN  CHOOSE n \in sizes : \A m \in sizes : m <= n

\* C39: the interaction pass always terminates even though offspring are
\* appended to the collection while it is being iterated with a live length
\* bound: offspring appended during a pass never themselves trigger a
\* reproduce in that pass, so the number of agents added in one pass is finite
\* and bounded by the reproductions among the agents present at its start.
PassAddsOnlyLittersOfStartingAgents ==
    (last.op = "update" /\ last.ran)
        => LET atStart == Len(last.updated)
               atEnd == Len(last.interacted)
           IN  /\ \A call \in Calls(last.reproduceCalls) :
                     call[1] \in PassIds /\ call[2] \in PassIds
               /\ \A c, d \in 1..Len(last.reproduceCalls) :
                     last.reproduceCalls[c] = last.reproduceCalls[d] => c = d
               /\ 2 * Len(last.reproduceCalls) <= atStart * (atStart - 1)
               /\ atEnd - atStart <= Len(last.reproduceCalls) * LargestLitter(last.updated)
               /\ 2 * Len(last.pairs) <= atEnd * (atEnd - 1)

\* A pass has appended an offspring and gone on to examine it with a parent,
\* without a further reproduction
PassExaminedItsOffspring ==
    /\ last.op = "update" /\ last.ran
    /\ Len(last.reproduceCalls) = 1
    /\ Len(last.interacted) = Len(last.updated) + 1
    /\ \E p \in 1..Len(last.pairs) :
          /\ last.pairs[p].b \notin PassIds
          /\ last.pairs[p].close
          /\ ~last.pairs[p].reproduced

\* C40: mate compatibility is symmetric: for any two agents A and B,
\* A.canMateWith(B) holds if and only if B.canMateWith(A) holds, including when
\* A and B have different lifespan traits.
MateCompatibilityIsSymmetric ==
    \A i, j \in 1..Len(animals) :
        canMateWith(animals[i], animals[j]) <=> canMateWith(animals[j], animals[i])

\* A herbivore has accepted, in mate, a partner of another lifespan that would
\* not accept it
HerbivoreAcceptedByOneSideOnly ==
    /\ last.op = "mate"
    /\ steps = 1
    /\ animals[last.self].kind = "Herbivore"
    /\ animals[last.self].state = "MATING"
    /\ animals[last.self].traits.lifespan # animals[last.partner].traits.lifespan
    /\ ~canMateWith(animals[last.partner], animals[last.self])

=============================================================================
